---------------------------- MODULE Spec2Model ----------------------------
(***************************************************************************)
(* Brokerage back office: the two ledgers (cash transactions, trade        *)
(* orders), the balance reads over them, the admin approval workflow with  *)
(* its notification gateway, and login.                                    *)
(*                                                                         *)
(* Conventions.  An optional JavaScript value (undefined / null / missing  *)
(* field) is the empty sequence <<>>, a present value v is <<v>>.  Money   *)
(* and prices are exact integers.                                          *)
(***************************************************************************)
EXTENDS Integers, Sequences, FiniteSets, TLC

\* ------------------------------------------------------------------ bounds

\* Documents the two ledger collections may hold together.
MaxRecords == 2

\* ------------------------------------------------------- optional values

Absent == <<>>

Some(v) == <<v>>

IsPresent(o) == o # <<>>

\* JavaScript truthiness of an optional number: undefined, null and 0 are falsy.
TruthyNum(o) == o # <<>> /\ o[1] # 0

\* JavaScript truthiness of an optional string: undefined, null and "" are falsy.
TruthyStr(o) == o # <<>> /\ o[1] # ""

\* `x || 0` on a number.
OrZero(o) == IF TruthyNum(o) THEN o[1] ELSE 0

\* ------------------------------------------------------------ collections

UserIds == {"u1", "u2"}

TxTypes == {"DEPOSIT", "WITHDRAWAL"}

RECURSIVE SumSeq(_)
SumSeq(s) == IF s = <<>> THEN 0 ELSE Head(s) + SumSeq(Tail(s))

\* The values F(d) of the documents of a collection, in collection order.
Project(docs, F(_)) == [i \in 1..Len(docs) |-> F(docs[i])]

\* Pipeline stage { $group: { _id: null, total: { $sum: <expr> } } }: no input
\* document gives no group (an empty result array), else one group.
GroupTotal(docs, Expr(_)) ==
    IF docs = <<>> THEN <<>> ELSE <<[total |-> SumSeq(Project(docs, Expr))]>>

\* `agg[0]?.total || 0`
FirstTotalOrZero(agg) ==
    IF agg = <<>> THEN 0 ELSE OrZero(Some(agg[1].total))

VARIABLES
    txs,        \* Transaction collection, in insertion order; a document's id is its index
    orders,     \* OrderHistory collection, in insertion order; a document's id is its index
    resp,       \* the HTTP response of the last ledger request, <<>> before any
    users,      \* User collection: users[id] is <<>> or <<document>>, id the document's _id
    calls,      \* the admin requests in flight (userapprove / userreject), one per caller
    env,        \* process.env: which e-mail providers are configured
    transporterInstance,  \* the cached SMTP transporter, <<>> when null
    pendingMail,          \* users whose registration notice is queued (setImmediate)
    userResp,   \* the HTTP response of the last register / login / changePassword request
    regs,       \* the register requests in flight between findOne and save
    settings,   \* Settings collection, in insertion order
    settingResp \* what the last settings call returned

ledgerVars == <<txs, orders, resp>>

accountVars == <<users, calls, env, transporterInstance, pendingMail, userResp, regs>>

settingsVars == <<settings, settingResp>>

vars ==
    <<txs, orders, resp, users, calls, env, transporterInstance, pendingMail, userResp,
      regs, settings, settingResp>>

Registrants == {"r1", "r2"}

IdleReg == [pc |-> "idle", req |-> <<>>]

Callers == {"admin1", "admin2"}

IdleCall ==
    [pc |-> "idle", op |-> "", userId |-> "", user |-> <<>>, newPassword |-> <<>>,
     reason |-> <<>>, attempt |-> 0, lastError |-> <<>>, delivered |-> <<>>,
     waited |-> <<>>, resp |-> <<>>]

InitStore ==
    /\ txs = <<>>
    /\ orders = <<>>
    /\ resp = <<>>
    /\ users = [id \in UserIds |-> <<>>]
    /\ calls = [c \in Callers |-> IdleCall]
    /\ transporterInstance = <<>>
    /\ pendingMail = {}
    /\ userResp = <<>>
    /\ regs = [r \in Registrants |-> IdleReg]
    /\ settings = <<>>
    /\ settingResp = <<>>

\* The process starts with an empty store under any provider configuration.
Init ==
    /\ InitStore
    /\ env \in [resend : BOOLEAN, smtp : BOOLEAN]

\* The ledger specification does not send mail: one configuration is enough.
InitLedger ==
    /\ InitStore
    /\ env = [resend |-> TRUE, smtp |-> TRUE]

\* A response of which only the HTTP status matters.
Reply(status) == Some([status |-> status])

\* ------------------------------------------------------ Balance Aggregator

TxAmount(t) == t.amount

OrderTradeAmount(o) == o.tradeAmount

\* { $ifNull: ['$profitLoss', 0] }
IfNullProfitLoss(o) == IF o.profitLoss = <<>> THEN 0 ELSE o.profitLoss[1]

\* { $ifNull: ['$tradeAmount', 0] }: tradeAmount is always stored.
IfNullTradeAmount(o) == o.tradeAmount

\* Mutant of MatchTx: the status filter is dropped.
MatchTxAnyStatus(coll, userId, type, status) ==
    SelectSeq(coll, LAMBDA t : t.userId = userId /\ t.type = type)

\* { $match: { userId, type, status } } on a Transaction collection.
MatchTx(coll, userId, type, status) ==
    SelectSeq(coll, LAMBDA t : t.userId = userId /\ t.type = type /\ t.status = status)

\* Mutant of MatchOrders: the userId filter is dropped.
MatchOrdersAnyUser(coll, userId, status) ==
    SelectSeq(coll, LAMBDA o : o.status = status)

\* Mutant of MatchOrders: the status filter is dropped (as in the admin view).
MatchOrdersAnyStatus(coll, userId, status) ==
    SelectSeq(coll, LAMBDA o : o.userId = userId)

\* { $match: { userId, status } } on an OrderHistory collection.
MatchOrders(coll, userId, status) ==
    SelectSeq(coll, LAMBDA o : o.userId = userId /\ o.status = status)

\* One of the two transaction aggregations with its `[0]?.total || 0`.
TotalCompleted(coll, userId, type) ==
    FirstTotalOrZero(GroupTotal(MatchTx(coll, userId, type, "COMPLETED"), TxAmount))

\* The body getUserDashboardData answers with, over the two collections: four
\* aggregations and the formula.
Dashboard(txColl, orderColl, userId) ==
    LET deposit == TotalCompleted(txColl, userId, "DEPOSIT")
        withdrawals == TotalCompleted(txColl, userId, "WITHDRAWAL")
        baseBalance == deposit - withdrawals
        orderInvestment ==
            FirstTotalOrZero(GroupTotal(MatchOrders(orderColl, userId, "OPEN"), OrderTradeAmount))
        profitLoss ==
            FirstTotalOrZero(GroupTotal(MatchOrders(orderColl, userId, "CLOSED"), IfNullProfitLoss))
    IN  [accountBalance |-> baseBalance - orderInvestment + profitLoss,
         totalDeposit |-> deposit,
         totalWithdrawals |-> withdrawals,
         profitLoss |-> profitLoss,
         orderInvestment |-> orderInvestment]

DashboardData(userId) == Dashboard(txs, orders, userId)

\* Mutant of getUserDashboardData: the read writes the defaulted profitLoss back
\* into the closed orders it summed.
getUserDashboardDataWriteBack(userId, dbOk) ==
    /\ resp' = IF dbOk
               THEN Some([op |-> "getUserDashboardData", status |-> 200,
                          userId |-> userId, body |-> DashboardData(userId)])
               ELSE Reply(500)
    /\ orders' = [i \in DOMAIN orders |->
                    IF orders[i].userId = userId /\ orders[i].status = "CLOSED"
                    THEN [orders[i] EXCEPT !.profitLoss = Some(IfNullProfitLoss(orders[i]))]
                    ELSE orders[i]]
    /\ UNCHANGED <<txs, accountVars, settingsVars>>

\* GET dashboard: a read; a failing aggregation is answered 500.
getUserDashboardData(userId, dbOk) ==
    /\ resp' = IF dbOk
               THEN Some([op |-> "getUserDashboardData", status |-> 200,
                          userId |-> userId, body |-> DashboardData(userId)])
               ELSE Reply(500)
    /\ UNCHANGED <<txs, orders, accountVars, settingsVars>>

\* $cond: [ { $and: [ type = T, status = COMPLETED ] }, '$amount', 0 ]
CondCompleted(t, type) == IF t.type = type /\ t.status = "COMPLETED" THEN t.amount ELSE 0

CondCompletedDeposit(t) == CondCompleted(t, "DEPOSIT")

CondCompletedWithdrawal(t) == CondCompleted(t, "WITHDRAWAL")

\* The balanceInfo of the admin user view: one $group over all the user's
\* transactions, one $group over all the user's orders whatever their status.
AdminBalanceInfo(userId) ==
    LET userTxs == SelectSeq(txs, LAMBDA t : t.userId = userId)
        userOrders == SelectSeq(orders, LAMBDA o : o.userId = userId)
        totalDeposits == OrZero(Some(SumSeq(Project(userTxs, CondCompletedDeposit))))
        totalWithdrawals == OrZero(Some(SumSeq(Project(userTxs, CondCompletedWithdrawal))))
        orderStats == IF userOrders = <<>> THEN <<>>
                      ELSE <<[totalInvestment |-> SumSeq(Project(userOrders, IfNullTradeAmount)),
                              totalProfitLoss |-> SumSeq(Project(userOrders, IfNullProfitLoss))]>>
    IN  [accountBalance |-> IF userTxs = <<>> THEN 0 ELSE totalDeposits - totalWithdrawals,
         totalDeposit |-> IF userTxs = <<>> THEN 0 ELSE totalDeposits,
         totalWithdrawals |-> IF userTxs = <<>> THEN 0 ELSE totalWithdrawals,
         orderInvestment |-> IF orderStats = <<>> THEN 0
                             ELSE OrZero(Some(orderStats[1].totalInvestment)),
         profitLoss |-> IF orderStats = <<>> THEN 0
                        ELSE OrZero(Some(orderStats[1].totalProfitLoss))]

ZeroBalanceInfo ==
    [accountBalance |-> 0, totalDeposit |-> 0, totalWithdrawals |-> 0,
     orderInvestment |-> 0, profitLoss |-> 0]

\* GET admin user view: a read.  userFound is the outcome of User.findById (the
\* ledgers keep the documents of a user whatever happens to the user record).
\* A failing aggregation is caught inside the handler, logged (balanceError) and
\* the default balanceInfo is answered with 200.
getUserbyId(userId, userFound, dbOk) ==
    /\ resp' = IF ~userFound THEN Reply(404) ELSE
               Some([op |-> "getUserbyId", status |-> 200, userId |-> userId,
                     balanceError |-> ~dbOk,
                     body |-> IF dbOk THEN AdminBalanceInfo(userId) ELSE ZeroBalanceInfo])
    /\ UNCHANGED <<txs, orders, accountVars, settingsVars>>

\* ------------------------------------------------------------ Ledger Store

TxStatusEnum == {"PENDING", "COMPLETED", "CANCELLED", "FAILED"}

LedgerFull == Len(txs) + Len(orders) >= MaxRecords

\* Append a cash transaction (a deposit or withdrawal request and its status).
CreateTransaction(userId, type, amount, status) ==
    /\ ~LedgerFull
    /\ txs' = Append(txs, [userId |-> userId, type |-> type, amount |-> amount,
                            status |-> status])
    /\ resp' = Reply(201)
    /\ UNCHANGED <<orders, accountVars, settingsVars>>

\* Transaction.findByIdAndUpdate(id, { status, ... }): the document's status is
\* set whatever its type and its present status; a missing id is 400, an
\* unknown id 404, a failing store 500.
SetTxStatus(id, status, dbOk) ==
    IF id = <<>> THEN resp' = Reply(400) /\ UNCHANGED <<txs, orders, accountVars, settingsVars>>
    ELSE IF ~dbOk THEN resp' = Reply(500) /\ UNCHANGED <<txs, orders, accountVars, settingsVars>>
    ELSE IF id[1] \notin DOMAIN txs THEN resp' = Reply(404) /\ UNCHANGED <<txs, orders, accountVars, settingsVars>>
    ELSE /\ txs' = [txs EXCEPT ![id[1]].status = status]
         /\ resp' = Reply(200)
         /\ UNCHANGED <<orders, accountVars, settingsVars>>

approveWithdrawal(withdrawalId, dbOk) ==
    SetTxStatus(withdrawalId, "COMPLETED", dbOk)

rejectWithdrawal(withdrawalId, dbOk) ==
    SetTxStatus(withdrawalId, "CANCELLED", dbOk)

approveDeposit(depositId, dbOk) ==
    SetTxStatus(depositId, "COMPLETED", dbOk)

rejectDeposit(depositId, dbOk) ==
    SetTxStatus(depositId, "FAILED", dbOk)

validStatuses == {"PENDING", "COMPLETED", "REJECTED", "FAILED", "CANCELLED"}

\* The route always carries transactionId; the status is validated first.
updateTransactionStatus(transactionId, status, dbOk) ==
    IF status \notin validStatuses
    THEN resp' = Reply(400) /\ UNCHANGED <<txs, orders, accountVars, settingsVars>>
    ELSE SetTxStatus(Some(transactionId), status, dbOk)

\* ------------------------------------------------------------------ trades

\* String.prototype.toUpperCase on the trade types a request may carry.
ToUpperCase(str) ==
    CASE str = "long" -> "LONG"
      [] str = "short" -> "SHORT"
      [] OTHER -> str

\* `x || null` on an optional number: 0 becomes null.
OrNull(o) == IF TruthyNum(o) THEN o ELSE <<>>

\* POST createTrade.  Every argument is an optional request field.
createTrade(userId, symbol, tradeType, quantity, buyPrice, priceRangeLow, priceRangeHigh, dbOk) ==
    IF ~(TruthyStr(userId) /\ TruthyStr(symbol) /\ TruthyStr(tradeType)
         /\ TruthyNum(quantity) /\ TruthyNum(buyPrice))
    THEN resp' = Reply(400) /\ UNCHANGED <<txs, orders, accountVars, settingsVars>>
    ELSE IF ~dbOk
    THEN resp' = Reply(500) /\ UNCHANGED <<txs, orders, accountVars, settingsVars>>
    ELSE
      LET tradeAmount == quantity[1] * buyPrice[1]
          buyPriceNum == buyPrice[1]
          priceRange == [low |-> IF TruthyNum(priceRangeLow) THEN priceRangeLow ELSE <<>>,
                         high |-> IF TruthyNum(priceRangeHigh) THEN priceRangeHigh ELSE <<>>,
                         mid |-> buyPriceNum]
          currentPrice == IF priceRange.low # <<>> /\ priceRange.high # <<>>
                          THEN Some(buyPriceNum) ELSE <<>>
          newTrade == [userId |-> userId[1],
                       symbol |-> symbol[1],
                       type |-> ToUpperCase(tradeType[1]),
                       quantity |-> quantity[1],
                       buyPrice |-> buyPriceNum,
                       sellPrice |-> <<>>,
                       tradeAmount |-> tradeAmount,
                       priceRange |-> priceRange,
                       currentPrice |-> currentPrice,
                       profitLoss |-> <<>>,
                       status |-> "OPEN"]
      IN  /\ ~LedgerFull
          /\ orders' = Append(orders, newTrade)
          /\ resp' = Reply(201)
          /\ UNCHANGED <<txs, accountVars, settingsVars>>

\* A request body of updateTrade: every field optional.
NoUpdate ==
    [status |-> <<>>, type |-> <<>>, quantity |-> <<>>, buyPrice |-> <<>>,
     sellPrice |-> <<>>, priceRangeLow |-> <<>>, priceRangeHigh |-> <<>>,
     profitLoss |-> <<>>]

\* The price-range block of updateTrade: the priceRange and currentPrice it adds
\* to updateData, computed from the request and the stored trade.
PriceRangeUpdate(updateData, existingTrade) ==
    LET buyPrice == IF TruthyNum(updateData.buyPrice) THEN updateData.buyPrice[1]
                    ELSE existingTrade.buyPrice
        priceRange == [low |-> IF updateData.priceRangeLow # <<>> THEN updateData.priceRangeLow
                               ELSE OrNull(existingTrade.priceRange.low),
                       high |-> IF updateData.priceRangeHigh # <<>> THEN updateData.priceRangeHigh
                                ELSE OrNull(existingTrade.priceRange.high),
                       mid |-> buyPrice]
        open == updateData.status = Some("OPEN") \/ existingTrade.status = "OPEN"
    IN  [priceRange |-> Some(priceRange),
         currentPrice |-> IF priceRange.low # <<>> /\ priceRange.high # <<>> /\ open
                          THEN Some(buyPrice) ELSE <<>>]

\* The profit/loss block of updateTrade: the profitLoss of updateData after it.
ProfitLossUpdate(updateData) ==
    IF TruthyNum(updateData.sellPrice) /\ TruthyNum(updateData.buyPrice)
       /\ TruthyNum(updateData.quantity)
    THEN LET buyTotal == updateData.buyPrice[1] * updateData.quantity[1]
             sellTotal == updateData.sellPrice[1] * updateData.quantity[1]
         IN  IF updateData.type # <<>> /\ ToUpperCase(updateData.type[1]) = "LONG"
             THEN Some(sellTotal - buyTotal)
             ELSE Some(buyTotal - sellTotal)
    ELSE updateData.profitLoss

\* The tradeAmount block of updateTrade: the tradeAmount updateData carries.
TradeAmountUpdate(updateData) ==
    IF TruthyNum(updateData.quantity) /\ TruthyNum(updateData.buyPrice)
    THEN Some(updateData.quantity[1] * updateData.buyPrice[1])
    ELSE <<>>

\* `new` if the update carries the field, else the stored value.
SetIf(new, old) == IF new # <<>> THEN new[1] ELSE old

\* findByIdAndUpdate(tradeId, { ...updateData }): the fields the update carries
\* replace the stored ones.
ApplyTradeUpdate(trade, updateData, range) ==
    [userId |-> trade.userId,
     symbol |-> trade.symbol,
     type |-> SetIf(updateData.type, trade.type),
     quantity |-> SetIf(updateData.quantity, trade.quantity),
     buyPrice |-> SetIf(updateData.buyPrice, trade.buyPrice),
     sellPrice |-> IF updateData.sellPrice # <<>> THEN updateData.sellPrice ELSE trade.sellPrice,
     tradeAmount |-> SetIf(TradeAmountUpdate(updateData), trade.tradeAmount),
     priceRange |-> SetIf(range.priceRange, trade.priceRange),
     currentPrice |-> IF range.currentPrice # <<>> THEN range.currentPrice ELSE trade.currentPrice,
     profitLoss |-> IF ProfitLossUpdate(updateData) # <<>> THEN ProfitLossUpdate(updateData)
                    ELSE trade.profitLoss,
     status |-> SetIf(updateData.status, trade.status)]

\* PUT updateTrade.
updateTrade(tradeId, updateData, dbOk) ==
    LET hasRange == updateData.priceRangeLow # <<>> \/ updateData.priceRangeHigh # <<>>
        found == tradeId \in DOMAIN orders
        range == IF hasRange /\ found THEN PriceRangeUpdate(updateData, orders[tradeId])
                 ELSE [priceRange |-> <<>>, currentPrice |-> <<>>]
    IN  IF ~dbOk THEN resp' = Reply(500) /\ UNCHANGED <<txs, orders, accountVars, settingsVars>>
        ELSE IF ~found THEN resp' = Reply(404) /\ UNCHANGED <<txs, orders, accountVars, settingsVars>>
        ELSE /\ orders' = [orders EXCEPT ![tradeId] = ApplyTradeUpdate(@, updateData, range)]
             /\ resp' = Reply(200)
             /\ UNCHANGED <<txs, accountVars, settingsVars>>

\* ------------------------------------------------- the ledger specification

\* Requests the ledger specification draws from.
CloseRequests ==
    { [NoUpdate EXCEPT !.status = Some("CLOSED"), !.type = Some("LONG"),
                       !.quantity = Some(1), !.buyPrice = Some(500),
                       !.sellPrice = Some(sp)] : sp \in {800, 200} }

LedgerTradeUpdates ==
    CloseRequests \cup { [NoUpdate EXCEPT !.status = Some("CLOSED")],
                         [NoUpdate EXCEPT !.status = Some("OPEN")] }

IdInputs(coll) == 1..(Len(coll) + 1)

\* Requests naming a document: every id in the collection and one that is
\* not, with the store answering; no id; and one request the store fails.
IdRequests(coll) ==
    {<<Some(i), TRUE>> : i \in IdInputs(coll)} \cup {<<Absent, TRUE>>, <<Some(1), FALSE>>}

LedgerCreateTrade ==
    \E userId \in UserIds, quantity \in {<<>>, Some(1)}, dbOk \in BOOLEAN :
        createTrade(Some(userId), Some("EURUSD"), Some("long"), quantity, Some(500),
                    <<>>, <<>>, dbOk)

LedgerUpdateTrade ==
    \E tradeId \in IdInputs(orders), updateData \in LedgerTradeUpdates :
        \E dbOk \in IF tradeId = 1 /\ updateData \in CloseRequests THEN BOOLEAN ELSE {TRUE} :
            updateTrade(tradeId, updateData, dbOk)

\* Deposits of 1000 and withdrawals of 400.
LedgerAmount(type) == IF type = "DEPOSIT" THEN 1000 ELSE 400

LedgerCreateTransaction ==
    \E userId \in UserIds, type \in TxTypes, status \in TxStatusEnum :
        CreateTransaction(userId, type, LedgerAmount(type), status)

LedgerApproveWithdrawal ==
    \E req \in IdRequests(txs) : approveWithdrawal(req[1], req[2])

LedgerRejectWithdrawal ==
    \E req \in IdRequests(txs) : rejectWithdrawal(req[1], req[2])

LedgerApproveDeposit ==
    \E req \in IdRequests(txs) : approveDeposit(req[1], req[2])

LedgerRejectDeposit ==
    \E req \in IdRequests(txs) : rejectDeposit(req[1], req[2])

LedgerUpdateTransactionStatus ==
    \E id \in IdInputs(txs), status \in validStatuses \cup {"DONE"} :
        \E dbOk \in IF id = 1 /\ status = "COMPLETED" THEN BOOLEAN ELSE {TRUE} :
            updateTransactionStatus(id, status, dbOk)

LedgerDashboardRead ==
    \E userId \in UserIds, dbOk \in BOOLEAN : getUserDashboardData(userId, dbOk)

LedgerAdminRead ==
    \E userId \in UserIds, userFound \in BOOLEAN :
        \E dbOk \in IF userFound THEN BOOLEAN ELSE {TRUE} :
            getUserbyId(userId, userFound, dbOk)

NextLedger ==
    \/ LedgerCreateTransaction
    \/ LedgerApproveWithdrawal
    \/ LedgerRejectWithdrawal
    \/ LedgerApproveDeposit
    \/ LedgerRejectDeposit
    \/ LedgerUpdateTransactionStatus
    \/ LedgerCreateTrade
    \/ LedgerUpdateTrade
    \/ LedgerDashboardRead
    \/ LedgerAdminRead

SpecLedger == InitLedger /\ [][NextLedger]_vars

\* ================================================================== claims

\* The sum of f[i] over the indices i in S.
RECURSIVE SumIdx(_, _)
SumIdx(S, f) ==
    IF S = {} THEN 0
    ELSE LET i == CHOOSE x \in S : TRUE IN f[i] + SumIdx(S \ {i}, f)

TxIdx(userId, type, status) ==
    {i \in DOMAIN txs : txs[i].userId = userId /\ txs[i].type = type /\ txs[i].status = status}

OrderIdx(userId, status) ==
    {i \in DOMAIN orders : orders[i].userId = userId /\ orders[i].status = status}

SumCompleted(userId, type) ==
    SumIdx(TxIdx(userId, type, "COMPLETED"), [i \in DOMAIN txs |-> txs[i].amount])

SumOpenTradeAmount(userId) ==
    SumIdx(OrderIdx(userId, "OPEN"), [i \in DOMAIN orders |-> orders[i].tradeAmount])

SumClosedProfitLoss(userId) ==
    SumIdx(OrderIdx(userId, "CLOSED"),
           [i \in DOMAIN orders |-> IF orders[i].profitLoss = <<>> THEN 0
                                    ELSE orders[i].profitLoss[1]])

ClaimedBalance(userId) ==
    SumCompleted(userId, "DEPOSIT") - SumCompleted(userId, "WITHDRAWAL")
        - SumOpenTradeAmount(userId) + SumClosedProfitLoss(userId)

IsRead(op) == resp # <<>> /\ "op" \in DOMAIN resp[1] /\ resp[1].op = op

\* C4: the body a dashboard read answers with has accountBalance = completed
\* deposits - completed withdrawals - tradeAmount of the user's OPEN orders +
\* profitLoss (missing as 0) of the user's CLOSED orders, all of that user only.
C4_DashboardBalanceFormula ==
    IsRead("getUserDashboardData") =>
        resp[1].body.accountBalance = ClaimedBalance(resp[1].userId)

\* A dashboard read of a user with an open order, taken while another user holds
\* a completed deposit: the balance is the user's own, -500.
C4_Witness ==
    /\ IsRead("getUserDashboardData")
    /\ resp[1].body.accountBalance = -500
    /\ \E i \in DOMAIN txs : /\ txs[i].userId # resp[1].userId
                             /\ txs[i].type = "DEPOSIT"
                             /\ txs[i].status = "COMPLETED"

NonCompleted == {"PENDING", "CANCELLED", "FAILED"}

PermuteTxs(p) == [i \in DOMAIN txs |-> txs[p[i]]]

BaseBalanceOf(coll, userId) ==
    TotalCompleted(coll, userId, "DEPOSIT") - TotalCompleted(coll, userId, "WITHDRAWAL")

\* A step that appends a transaction that is not COMPLETED, or moves one
\* transaction from one of PENDING, CANCELLED, FAILED to another of them.
InertTxStep ==
    /\ orders' = orders
    /\ \/ /\ Len(txs') = Len(txs) + 1
          /\ SubSeq(txs', 1, Len(txs)) = txs
          /\ txs'[Len(txs')].status \in NonCompleted
       \/ /\ Len(txs') = Len(txs)
          /\ \E i \in DOMAIN txs :
                /\ txs[i].status \in NonCompleted
                /\ txs'[i].status \in NonCompleted \ {txs[i].status}
                /\ txs' = [txs EXCEPT ![i].status = txs'[i].status]

\* C5: baseBalance is sum(D) - sum(W) over the COMPLETED transactions in whatever
\* order the collection holds them, and appending a PENDING, CANCELLED or FAILED
\* transaction or moving one among those statuses changes no computed balance.
C5_BaseBalanceCompletedOnly ==
    /\ [](\A userId \in UserIds : \A p \in Permutations(DOMAIN txs) :
            BaseBalanceOf(PermuteTxs(p), userId)
                = SumCompleted(userId, "DEPOSIT") - SumCompleted(userId, "WITHDRAWAL"))
    /\ [][InertTxStep =>
            \A userId \in UserIds :
                /\ DashboardData(userId)' = DashboardData(userId)
                /\ AdminBalanceInfo(userId)' = AdminBalanceInfo(userId)]_vars

\* A dashboard read of a user holding a completed deposit and a transaction that
\* is not completed: only the completed one counts.
C5_Witness ==
    /\ IsRead("getUserDashboardData")
    /\ resp[1].body.accountBalance = 1000
    /\ \E i \in DOMAIN txs : /\ txs[i].userId = resp[1].userId
                             /\ txs[i].status \in NonCompleted

\* C6: a dashboard read changes no ledger document, and while no write has
\* followed it the body it answered with is what computing the balance again gives.
C6_BalanceReadIsPure ==
    /\ [](IsRead("getUserDashboardData") =>
            resp[1].body = DashboardData(resp[1].userId))
    /\ [][\/ UNCHANGED <<txs, orders, users>>
          \/ ~(\E userId \in UserIds, dbOk \in BOOLEAN :
                  getUserDashboardData(userId, dbOk))]_vars

\* A dashboard read that summed a closed order without profitLoss.
C6_Witness ==
    /\ IsRead("getUserDashboardData")
    /\ \E i \in DOMAIN orders : /\ orders[i].userId = resp[1].userId
                                /\ orders[i].status = "CLOSED"
                                /\ orders[i].profitLoss = <<>>

RemoveAt(seq, i) == SubSeq(seq, 1, i - 1) \o SubSeq(seq, i + 1, Len(seq))

Balance(userId) == DashboardData(userId).accountBalance

\* A step that closes order i and leaves every other document alone.
CloseStep(i) ==
    /\ orders[i].status = "OPEN"
    /\ DOMAIN orders' = DOMAIN orders
    /\ orders'[i].status = "CLOSED"
    /\ \A j \in DOMAIN orders : j # i => orders'[j] = orders[j]
    /\ txs' = txs

OnlyCompletedDeposit1000(userId) ==
    /\ \E i \in DOMAIN txs : txs[i] = [userId |-> userId, type |-> "DEPOSIT",
                                       amount |-> 1000, status |-> "COMPLETED"]
    /\ SumCompleted(userId, "DEPOSIT") = 1000
    /\ SumCompleted(userId, "WITHDRAWAL") = 0

\* C7: an OPEN order of tradeAmount t lowers the balance by t; closing it with
\* profitLoss p raises the balance by t + p; a completed deposit of 1000 with one
\* open order of 500 gives 500, and 1300 once that order is closed with +300.
C7_PositionLifecycle ==
    /\ [](\A i \in DOMAIN orders :
            orders[i].status = "OPEN" =>
                Balance(orders[i].userId)
                    = Dashboard(txs, RemoveAt(orders, i), orders[i].userId).accountBalance
                        - orders[i].tradeAmount)
    /\ [][\A i \in DOMAIN orders :
            CloseStep(i) =>
                Balance(orders[i].userId)'
                    = Balance(orders[i].userId) + orders[i].tradeAmount
                        + IfNullProfitLoss(orders'[i])]_vars
    /\ [](\A userId \in UserIds :
            (OnlyCompletedDeposit1000(userId) /\ Cardinality(
                {i \in DOMAIN orders : orders[i].userId = userId}) = 1) =>
                \A i \in DOMAIN orders :
                    orders[i].userId = userId =>
                        /\ (orders[i].status = "OPEN" /\ orders[i].tradeAmount = 500)
                              => Balance(userId) = 500
                        /\ (orders[i].status = "CLOSED" /\ orders[i].profitLoss = Some(300))
                              => Balance(userId) = 1300)

\* The scenario's end: the dashboard read after the order of 500 was closed with
\* +300 over a completed deposit of 1000.
C7_Witness ==
    /\ IsRead("getUserDashboardData")
    /\ resp[1].body.accountBalance = 1300
    /\ OnlyCompletedDeposit1000(resp[1].userId)
    /\ \E i \in DOMAIN orders : /\ orders[i].userId = resp[1].userId
                                /\ orders[i].status = "CLOSED"
                                /\ orders[i].tradeAmount = 500
                                /\ orders[i].profitLoss = Some(300)

\* C8: the balanceInfo of the admin user view follows the balance formula:
\* accountBalance as the dashboard's, orderInvestment over OPEN orders only,
\* profitLoss over CLOSED orders only.
C8_AdminViewAgreesWithDashboard ==
    (IsRead("getUserbyId") /\ ~resp[1].balanceError) =>
        /\ resp[1].body.accountBalance = ClaimedBalance(resp[1].userId)
        /\ resp[1].body.orderInvestment = SumOpenTradeAmount(resp[1].userId)
        /\ resp[1].body.profitLoss = SumClosedProfitLoss(resp[1].userId)
        /\ resp[1].body = DashboardData(resp[1].userId)


(***************************************************************************)
(* Accounts: registration, the e-mail gateway, approval / rejection and    *)
(* login (src/src/controllers/orderhistory.controller.js).                 *)
(***************************************************************************)

\* maxRetries: the attempts sendEmailWithRetry makes (both handlers pass 3).
MaxRetries == 3

\* Bound on the successful logins of one user (lastLogin is a logical time).
MaxLogins == 2

\* A password text is its characters and whether white space surrounds them.
PasswordTexts == {"pwA", "pwB"}

Plain(text) == [text |-> text, padded |-> FALSE]

Padded(text) == [text |-> text, padded |-> TRUE]

\* String.prototype.trim
Trim(p) == [p EXCEPT !.padded = FALSE]

\* !password of a request field: the empty string is falsy, "  " is not
IsEmptyPassword(p) == p = Plain("")

\* generateRandomPassword: some string over [A-Za-z0-9], never padded
GeneratedPasswords == {Plain(t) : t \in PasswordTexts}

\* The pre-save hook stores bcrypt.hash(password), never the text itself.
Hash(p) == [bcrypt |-> p]

\* A comparison that accepts every candidate
BcryptCompareAny(candidate, stored) == TRUE

\* bcrypt.compare(candidate, stored)
BcryptCompare(candidate, stored) == stored = Hash(candidate)

UserReply(op, email, status, message, cookie) ==
    Some([op |-> op, email |-> email, status |-> status, message |-> message,
          cookie |-> cookie])

FileSlots == {"aadharPhoto", "panPhoto", "userPhoto", "passbookPhoto"}

\* A register request: the four identity fields ("" when missing), whether the
\* other required fields are all present, the document slots uploaded with a
\* path, and a password field should the client send one.
RegisterRequest(email, phone, pan, aadharNo, otherFields, files, password) ==
    [email |-> email, phone |-> phone, pan |-> pan, aadharNo |-> aadharNo,
     otherFields |-> otherFields, files |-> files, password |-> password]

\* The 400 answers of register ahead of any database call, <<>> when none
RegisterValidation(req) ==
    IF req.files # FileSlots
    THEN Some("Please upload all required documents")
    ELSE IF req.email = "" \/ req.phone = "" \/ req.pan = "" \/ req.aadharNo = ""
            \/ ~req.otherFields
    THEN Some("Please provide all required fields")
    ELSE <<>>

\* A document matches { $or: [{ email }, { phone }, { pan }, { aadharNo }] }
Collides(doc, req) ==
    \/ doc.email = req.email
    \/ doc.phone = req.phone
    \/ doc.pan = req.pan
    \/ doc.aadharNo = req.aadharNo

\* User.findOne({ $or: [...] }) finds a document
userExists(req) == \E id \in UserIds : users[id] # <<>> /\ Collides(users[id][1], req)

\* A User collection without unique indexes
NoUniqueIndex(req) == FALSE

\* The insert breaks a unique index of the User collection (error code 11000)
UniqueIndexViolation(req) ==
    \E id \in UserIds : users[id] # <<>> /\ Collides(users[id][1], req)

FreeIds == {id \in UserIds : users[id] = <<>>}

\* The _id the next inserted user gets
NextUserId == IF "u1" \in FreeIds THEN "u1" ELSE "u2"

\* A user created with the password the client sent, when it sent one
NewUserClientPassword(req, generatedPassword) ==
    LET password == IF req.password # <<>> THEN req.password[1] ELSE generatedPassword
    IN  [email |-> req.email, phone |-> req.phone, pan |-> req.pan,
         aadharNo |-> req.aadharNo, password |-> Hash(password),
         generatedPassword |-> password, isVerified |-> FALSE, lastLogin |-> <<>>]

\* new User({... password: generatedPassword, generatedPassword,
\* isVerified: false}) as save() stores it
NewUser(req, generatedPassword) ==
    [email |-> req.email, phone |-> req.phone, pan |-> req.pan,
     aadharNo |-> req.aadharNo, password |-> Hash(generatedPassword),
     generatedPassword |-> generatedPassword, isVerified |-> FALSE,
     lastLogin |-> <<>>]

\* register up to its save: the file and field checks, then the existence
\* query; a request that passes both goes on to save.
register(r, req, dbOk) ==
    /\ regs[r].pc = "idle"
    /\ IF RegisterValidation(req) # <<>>
       THEN /\ userResp' = UserReply("register", req.email, 400, RegisterValidation(req)[1], FALSE)
            /\ UNCHANGED regs
       ELSE IF ~dbOk
       THEN /\ userResp' = UserReply("register", req.email, 500, "Error in registration", FALSE)
            /\ UNCHANGED regs
       ELSE IF userExists(req)
       THEN /\ userResp' = UserReply("register", req.email, 400, "User already exists", FALSE)
            /\ UNCHANGED regs
       ELSE /\ regs' = [regs EXCEPT ![r] = [pc |-> "save", req |-> Some(req)]]
            /\ UNCHANGED userResp
    /\ UNCHANGED <<ledgerVars, settingsVars, users, calls, env, transporterInstance,
                   pendingMail>>

\* A register that queues the notice without having saved the user
registerSaveNoticeFirst(r, generatedPassword, dbOk) ==
    /\ regs[r].pc = "save"
    /\ FreeIds # {}
    /\ regs' = [regs EXCEPT ![r] = IdleReg]
    /\ pendingMail' = pendingMail \cup {NextUserId}
    /\ userResp' = UserReply("register", regs[r].req[1].email, 500, "Error in registration", FALSE)
    /\ UNCHANGED <<ledgerVars, settingsVars, users, calls, env, transporterInstance>>

\* register from `await newUser.save()` on: the insert, the queued notice
\* (setImmediate) and the 201; a failed insert goes to the catch.
registerSave(r, generatedPassword, dbOk) ==
    /\ regs[r].pc = "save"
    /\ FreeIds # {}
    /\ regs' = [regs EXCEPT ![r] = IdleReg]
    /\ LET req == regs[r].req[1]
       IN  IF ~dbOk
           THEN /\ userResp' = UserReply("register", req.email, 500, "Error in registration", FALSE)
                /\ UNCHANGED <<users, pendingMail>>
           ELSE IF UniqueIndexViolation(req)
           THEN /\ userResp' = UserReply("register", req.email, 400, "A user with this field already exists", FALSE)
                /\ UNCHANGED <<users, pendingMail>>
           ELSE /\ users' = [users EXCEPT ![NextUserId] = Some(NewUser(req, generatedPassword))]
                /\ pendingMail' = pendingMail \cup {NextUserId}
                /\ userResp' = UserReply("register", req.email, 201, "Registration successful", FALSE)
    /\ UNCHANGED <<ledgerVars, settingsVars, calls, env, transporterInstance>>

\* createTransporter: null unless the SMTP credentials are configured
createTransporter == IF env.smtp THEN Some("transporter") ELSE <<>>

\* getTransporter: the cached instance, created on first use
getTransporter ==
    IF transporterInstance = <<>> THEN createTransporter ELSE transporterInstance

\* getResendClient: the client exists iff RESEND_API_KEY is configured
getResendClient == IF env.resend THEN Some("resend") ELSE <<>>

SmtpResults == {"ok", "ECONNRESET", "EAUTH"}

\* getDefaultFromAddress with neither EMAIL_FROM nor EMAIL_USER set
DefaultFromAddress == "Forex Flow <no-reply@forexflowtrade.com>"

\* The options a caller hands to sendEmail: `to` as the list of its entries
\* ("" for a falsy one), `from` when the caller names a sender.
MailOptions(to, from, subject, text) ==
    [to |-> to, from |-> from, subject |-> subject, text |-> text,
     html |-> "<div>" \o text \o "</div>"]

\* normalizeRecipients: the truthy entries
normalizeRecipients(recipients) == SelectSeq(recipients, LAMBDA a : a # "")

\* recipients.join(", ")
RECURSIVE Join(_)
Join(recipients) ==
    IF Len(recipients) = 0 THEN ""
    ELSE IF Len(recipients) = 1 THEN recipients[1]
    ELSE recipients[1] \o ", " \o Join(Tail(recipients))

\* mailOptions.from?.trim() || getDefaultFromAddress()
SenderAddress(mailOptions) ==
    IF mailOptions.from # <<>> /\ mailOptions.from[1] # ""
    THEN mailOptions.from[1]
    ELSE DefaultFromAddress

\* What resendClient.emails.send is handed
ResendPayload(mailOptions) ==
    [provider |-> "resend", from |-> SenderAddress(mailOptions),
     to |-> normalizeRecipients(mailOptions.to), subject |-> mailOptions.subject,
     text |-> mailOptions.text, html |-> mailOptions.html]

\* What transporter.sendMail is handed
SmtpPayload(mailOptions) ==
    [provider |-> "smtp", from |-> SenderAddress(mailOptions),
     to |-> Join(normalizeRecipients(mailOptions.to)), subject |-> mailOptions.subject,
     text |-> mailOptions.text, html |-> mailOptions.html]

\* A gateway that hands every message to the SMTP transporter as well
sendEmailBothProviders(mailOptions, resendOk, smtpResult) ==
    [ok |-> TRUE, provider |-> IF getResendClient # <<>> THEN "resend" ELSE "smtp",
     code |-> <<>>, transporter |-> getTransporter,
     contacted |-> IF getResendClient # <<>>
                   THEN <<ResendPayload(mailOptions), SmtpPayload(mailOptions)>>
                   ELSE <<SmtpPayload(mailOptions)>>]

\* sendEmail, one call: the Resend API first, SMTP when it is absent or
\* fails.  resendOk and smtpResult are what the providers answer.  The
\* result carries the provider that delivered, or the error thrown, the
\* transporter cache as the call leaves it, and what each provider contacted
\* was handed, in the order of the contacts.
sendEmail(mailOptions, resendOk, smtpResult) ==
    LET tried == IF getResendClient # <<>> THEN <<ResendPayload(mailOptions)>> ELSE <<>>
    IN  IF normalizeRecipients(mailOptions.to) = <<>>
        THEN [ok |-> FALSE, provider |-> "", code |-> <<>>,
              transporter |-> transporterInstance, contacted |-> <<>>]
        ELSE IF getResendClient # <<>> /\ resendOk
        THEN [ok |-> TRUE, provider |-> "resend", code |-> <<>>,
              transporter |-> transporterInstance, contacted |-> tried]
        ELSE IF getTransporter = <<>>
        THEN [ok |-> FALSE, provider |-> "", code |-> <<>>, transporter |-> <<>>,
              contacted |-> tried]
        ELSE IF smtpResult = "ok"
        THEN [ok |-> TRUE, provider |-> "smtp", code |-> <<>>,
              transporter |-> getTransporter,
              contacted |-> Append(tried, SmtpPayload(mailOptions))]
        ELSE [ok |-> FALSE, provider |-> "", code |-> Some(smtpResult),
              transporter |-> getTransporter,
              contacted |-> Append(tried, SmtpPayload(mailOptions))]

\* The mail of register, userapprove and userreject to one user
UserMail(email, subject) == MailOptions(<<email>>, <<>>, subject, "Dear user")

isConnectionError(code) ==
    code # <<>> /\ code[1] \in {"ETIMEDOUT", "ECONNRESET", "ESOCKET", "ECONNREFUSED"}

\* The setImmediate callback of register: one sendEmail, errors swallowed.
registerNotify(id, resendOk, smtpResult) ==
    /\ id \in pendingMail
    /\ pendingMail' = pendingMail \ {id}
    /\ transporterInstance' =
          sendEmail(UserMail(users[id][1].email, "Profile Approval Request Submitted"),
                    resendOk, smtpResult).transporter
    /\ UNCHANGED <<ledgerVars, settingsVars, regs, users, calls, env, userResp>>

AdminReply(status, isVerified, emailSent) ==
    Some([status |-> status, isVerified |-> isVerified, emailSent |-> emailSent])

Finish(call, reply) == [call EXCEPT !.pc = "done", !.lastError = <<>>, !.resp = reply]

\* userapprove / userreject up to the first await of sendEmailWithRetry:
\* the id check, User.findById, and (approve) the fresh credential.
BeginReview(c, op, userId, newPassword, reason, dbOk) ==
    /\ calls[c].pc = "idle"
    /\ LET call == [IdleCall EXCEPT !.op = op, !.userId = userId, !.reason = reason]
       IN  calls' = [calls EXCEPT ![c] =
              IF userId = "" THEN Finish(call, AdminReply(400, <<>>, <<>>))
              ELSE IF ~dbOk THEN Finish(call, AdminReply(500, <<>>, <<>>))
              ELSE IF users[userId] = <<>> THEN Finish(call, AdminReply(404, <<>>, <<>>))
              ELSE [call EXCEPT !.pc = "send", !.user = users[userId],
                                !.newPassword = newPassword, !.attempt = 1]]
    /\ UNCHANGED <<ledgerVars, settingsVars, regs, users, env, transporterInstance, pendingMail, userResp>>

userapprove(c, userId, newPassword, dbOk) ==
    BeginReview(c, "userapprove", userId, Some(newPassword), <<>>, dbOk)

\* req.body.reason is never read by the handler; it is kept with the call
\* only so that what the request carried can be compared with the store.
userreject(c, userId, reason, dbOk) ==
    BeginReview(c, "userreject", userId, <<>>, reason, dbOk)

\* The mailOptions userapprove and userreject build for the loaded user
ReviewMail(call) ==
    UserMail(call.user[1].email,
             IF call.op = "userapprove" THEN "Profile Approved - Your Login Credentials"
             ELSE "Profile Verification Rejected")

\* sendEmailWithRetry whose last failure returns to the handler instead of
\* being rethrown.
sendEmailWithRetryAttemptFailOpen(c, resendOk, smtpResult) ==
    /\ calls[c].pc = "send"
    /\ LET call == calls[c]
           out == sendEmail(ReviewMail(call), resendOk, smtpResult)
       IN  /\ transporterInstance' = out.transporter
           /\ calls' = [calls EXCEPT ![c] =
                 IF out.ok
                 THEN [call EXCEPT !.pc = "save", !.delivered = Some(out.provider)]
                 ELSE IF call.attempt = MaxRetries
                 THEN [call EXCEPT !.pc = "save"]
                 ELSE [call EXCEPT !.pc = "wait", !.lastError = out.code]]
    /\ UNCHANGED <<ledgerVars, settingsVars, regs, users, env, pendingMail, userResp>>

\* One iteration of the loop of sendEmailWithRetry.  Success returns to the
\* handler, which goes on to write the user; the last failure is rethrown
\* into the handler's inner catch, which answers 500 (lastError keeps the
\* error thrown); any other failure starts the back-off.
sendEmailWithRetryAttempt(c, resendOk, smtpResult) ==
    /\ calls[c].pc = "send"
    /\ LET call == calls[c]
           out == sendEmail(ReviewMail(call), resendOk, smtpResult)
       IN  /\ transporterInstance' = out.transporter
           /\ calls' = [calls EXCEPT ![c] =
                 IF out.ok
                 THEN [call EXCEPT !.pc = "save", !.delivered = Some(out.provider)]
                 ELSE IF call.attempt = MaxRetries
                 THEN [Finish(call, AdminReply(500, Some(call.user[1].isVerified), Some(FALSE)))
                          EXCEPT !.lastError = out.code]
                 ELSE [call EXCEPT !.pc = "wait", !.lastError = out.code]]
    /\ UNCHANGED <<ledgerVars, settingsVars, regs, users, env, pendingMail, userResp>>

\* A back-off of the base time after every failure
WaitTimeFlat(attempt) == 2000

\* waitTime = Math.min(2000 * Math.pow(2, attempt - 1), 10000)
WaitTime(attempt) ==
    IF 2000 * 2^(attempt - 1) < 10000 THEN 2000 * 2^(attempt - 1) ELSE 10000

\* A back-off that keeps the transporter whatever the error was
sendEmailWithRetryWaitKeep(c) ==
    /\ calls[c].pc = "wait"
    /\ calls' = [calls EXCEPT ![c] =
          [@ EXCEPT !.pc = "send", !.attempt = @ + 1, !.lastError = <<>>,
                    !.waited = Append(@, WaitTime(calls[c].attempt))]]
    /\ UNCHANGED <<ledgerVars, settingsVars, regs, users, env, pendingMail, userResp,
                   transporterInstance>>

\* After the back-off timer of waitTime ms: reset the transporter on a
\* connection error, then the next iteration.
sendEmailWithRetryWait(c) ==
    /\ calls[c].pc = "wait"
    /\ transporterInstance' =
          IF isConnectionError(calls[c].lastError) THEN <<>> ELSE transporterInstance
    /\ calls' = [calls EXCEPT ![c] =
          [@ EXCEPT !.pc = "send", !.attempt = @ + 1, !.lastError = <<>>,
                    !.waited = Append(@, WaitTime(calls[c].attempt))]]
    /\ UNCHANGED <<ledgerVars, settingsVars, regs, users, env, pendingMail, userResp>>

\* UserSchema.pre('save'): a modified password is stored hashed
PreSave(field, value) == IF field = "password" THEN Hash(value) ELSE value

\* A save that writes nothing when the stored user is already verified
SaveUserOnce(stored, loaded, assigned) ==
    IF stored.isVerified THEN stored
    ELSE [f \in DOMAIN stored |->
            IF f \in DOMAIN assigned /\ assigned[f] # loaded[f]
            THEN PreSave(f, assigned[f])
            ELSE stored[f]]

\* document.save(): the paths assigned a value other than the loaded one are
\* written, the rest of the stored document stays as it is.
SaveUser(stored, loaded, assigned) ==
    [f \in DOMAIN stored |->
        IF f \in DOMAIN assigned /\ assigned[f] # loaded[f]
        THEN PreSave(f, assigned[f])
        ELSE stored[f]]

\* an approval that only sets the flag and keeps the stored credential
ApproveChangesFlagOnly(newPassword) == [isVerified |-> TRUE]

\* user.password = newPassword; user.generatedPassword = newPassword;
\* user.isVerified = true
ApproveChanges(newPassword) ==
    [password |-> newPassword, generatedPassword |-> newPassword,
     isVerified |-> TRUE]

\* a rejection that writes the flag of an approval
RejectChangesVerified == [isVerified |-> TRUE]

\* user.isVerified = false
RejectChanges == [isVerified |-> FALSE]

\* The tail of a handler after a delivered e-mail: assign, await
\* user.save(), respond 200.  A rejected save lands in the same inner catch
\* as a failed e-mail.
SaveReview(c, op, changes, isVerified, dbOk) ==
    /\ calls[c].pc = "save"
    /\ calls[c].op = op
    /\ LET call == calls[c]
       IN  IF dbOk
           THEN /\ users' = [users EXCEPT ![call.userId] =
                      Some(SaveUser(@[1], call.user[1], changes))]
                /\ calls' = [calls EXCEPT ![c] =
                      Finish(call, AdminReply(200, Some(isVerified), Some(TRUE)))]
           ELSE /\ calls' = [calls EXCEPT ![c] =
                      Finish(call, AdminReply(500, Some(isVerified), Some(FALSE)))]
                /\ UNCHANGED users
    /\ UNCHANGED <<ledgerVars, settingsVars, regs, env, transporterInstance, pendingMail, userResp>>

userapproveSave(c, dbOk) ==
    /\ calls[c].newPassword # <<>>
    /\ SaveReview(c, "userapprove", ApproveChanges(calls[c].newPassword[1]), TRUE, dbOk)

userrejectSave(c, dbOk) == SaveReview(c, "userreject", RejectChanges, FALSE, dbOk)

\* The response has been sent; the caller may issue its next request.
Respond(c) ==
    /\ calls[c].pc = "done"
    /\ calls' = [calls EXCEPT ![c] = IdleCall]
    /\ UNCHANGED <<ledgerVars, settingsVars, regs, users, env, transporterInstance, pendingMail, userResp>>

Emails == {"a@x.io", "b@x.io"}

\* The ids of the users with this e-mail
IdsOf(email) == {id \in UserIds : users[id] # <<>> /\ users[id][1].email = email}

\* The _id of the document User.findOne({ email }) returns (the first inserted)
IdOf(email) == IF "u1" \in IdsOf(email) THEN "u1" ELSE "u2"

\* User.findOne({ email }): <<>> when no document matches
findOne(email) == IF IdsOf(email) = {} THEN <<>> ELSE users[IdOf(email)]

\* login with the verification check ahead of the password check
LoginResultVerifiedFirst(email, password, dbOk) ==
    IF email = "" \/ IsEmptyPassword(password)
    THEN [status |-> 400, message |-> "Please provide email and password"]
    ELSE IF ~dbOk THEN [status |-> 500, message |-> "error"]
    ELSE IF findOne(email) = <<>> THEN [status |-> 401, message |-> "Invalid email"]
    ELSE IF findOne(email)[1].isVerified = FALSE
    THEN [status |-> 402, message |-> "Your are not Verified"]
    ELSE IF ~BcryptCompare(Trim(password), findOne(email)[1].password)
    THEN [status |-> 401, message |-> "Invalid password"]
    ELSE [status |-> 200, message |-> "login success"]

\* login: the status and message the handler answers with
LoginResult(email, password, dbOk) ==
    IF email = "" \/ IsEmptyPassword(password)
    THEN [status |-> 400, message |-> "Please provide email and password"]
    ELSE IF ~dbOk THEN [status |-> 500, message |-> "error"]
    ELSE IF findOne(email) = <<>> THEN [status |-> 401, message |-> "Invalid email"]
    ELSE IF ~BcryptCompare(Trim(password), findOne(email)[1].password)
    THEN [status |-> 401, message |-> "Invalid password"]
    ELSE IF findOne(email)[1].isVerified = FALSE
    THEN [status |-> 402, message |-> "Your are not Verified"]
    ELSE [status |-> 200, message |-> "login success"]

NextLogin(lastLogin) == IF lastLogin = <<>> THEN 1 ELSE lastLogin[1] + 1

\* login that stamps lastLogin before the verification check
loginStampsUnverified(email, password, dbOk) ==
    LET r == LoginResult(email, password, dbOk)
        stamps == r.status \in {200, 402}
    IN  /\ stamps => NextLogin(findOne(email)[1].lastLogin) <= MaxLogins
        /\ userResp' = UserReply("login", email, r.status, r.message, r.status = 200)
        /\ users' = IF stamps
                    THEN [users EXCEPT ![IdOf(email)] =
                            Some([@[1] EXCEPT !.lastLogin = Some(NextLogin(@))])]
                    ELSE users
        /\ UNCHANGED <<ledgerVars, settingsVars, regs, calls, env, transporterInstance, pendingMail>>

login(email, password, dbOk) ==
    LET r == LoginResult(email, password, dbOk)
    IN  /\ r.status = 200 => NextLogin(findOne(email)[1].lastLogin) <= MaxLogins
        /\ userResp' = UserReply("login", email, r.status, r.message, r.status = 200)
        /\ users' = IF r.status = 200
                    THEN [users EXCEPT ![IdOf(email)] =
                            Some([@[1] EXCEPT !.lastLogin = Some(NextLogin(@))])]
                    ELSE users
        /\ UNCHANGED <<ledgerVars, settingsVars, regs, calls, env, transporterInstance, pendingMail>>

(***************************************************************************)
(* The account specification: one applicant registers, admins approve and  *)
(* reject, anyone logs in.                                                 *)
(***************************************************************************)

Applicants == {"a@x.io"}

\* The admin sessions that act in this specification, one request at a time each.
Reviewers == {"admin1"}

RequestIds == UserIds \cup {""}

LoginPasswords == {Plain(t) : t \in PasswordTexts} \cup {Padded("pwA"), Plain("")}

Reasons == {<<>>, Some("documents unreadable")}

\* The applicant's complete request.
ApplicantRequest(email) ==
    RegisterRequest(email, "9000000001", "PAN0001", "AADHAR0001", TRUE, FileSlots, <<>>)

\* The requests of one applicant: complete, complete with a password field,
\* one document slot short, and one required field short.
ApplicantRequests ==
    UNION {{ApplicantRequest(email),
            [ApplicantRequest(email) EXCEPT !.password = Some(Plain("client"))],
            [ApplicantRequest(email) EXCEPT !.files = FileSlots \ {"passbookPhoto"}],
            [ApplicantRequest(email) EXCEPT !.otherFields = FALSE]} : email \in Applicants}

\* Registrations are handled one at a time in this specification.
Clerks == {"r1"}

Register ==
    \E r \in Clerks, req \in ApplicantRequests, dbOk \in BOOLEAN : register(r, req, dbOk)

RegisterSave ==
    \E r \in Clerks, generatedPassword \in GeneratedPasswords, dbOk \in BOOLEAN :
        registerSave(r, generatedPassword, dbOk)

RegisterNotify ==
    \E id \in UserIds, resendOk \in BOOLEAN, smtpResult \in SmtpResults :
        registerNotify(id, resendOk, smtpResult)

Approve ==
    \E c \in Reviewers, userId \in RequestIds,
       newPassword \in GeneratedPasswords, dbOk \in BOOLEAN :
        userapprove(c, userId, newPassword, dbOk)

Reject ==
    \E c \in Reviewers, userId \in RequestIds, reason \in Reasons, dbOk \in BOOLEAN :
        userreject(c, userId, reason, dbOk)

SendAttempt ==
    \E c \in Reviewers, resendOk \in BOOLEAN, smtpResult \in SmtpResults :
        sendEmailWithRetryAttempt(c, resendOk, smtpResult)

SendWait == \E c \in Reviewers : sendEmailWithRetryWait(c)

ApproveSave == \E c \in Reviewers, dbOk \in BOOLEAN : userapproveSave(c, dbOk)

RejectSave == \E c \in Reviewers, dbOk \in BOOLEAN : userrejectSave(c, dbOk)

Responded == \E c \in Reviewers : Respond(c)

\* Login requests: the applicant with every password, an unknown e-mail, a
\* missing e-mail, and the applicant while the store fails.
LoginRequests ==
    {<<email, password, TRUE>> : email \in Applicants, password \in LoginPasswords}
        \cup {<<email, Plain("pwA"), TRUE>> : email \in (Emails \cup {""}) \ Applicants}
        \cup {<<email, Plain(t), FALSE>> : email \in Applicants, t \in PasswordTexts}

Login == \E req \in LoginRequests : login(req[1], req[2], req[3])

Next ==
    \/ Register
    \/ RegisterSave
    \/ RegisterNotify
    \/ Approve
    \/ Reject
    \/ SendAttempt
    \/ SendWait
    \/ ApproveSave
    \/ RejectSave
    \/ Responded
    \/ Login

Spec == Init /\ [][Next]_vars

(***************************************************************************)
(* Claims about approval, rejection and login, checked under Spec.         *)
(***************************************************************************)

Credential(doc) == [password |-> doc.password, isVerified |-> doc.isVerified]

\* A finished review call: the gateway was invoked and every attempt failed
FailedDelivery(k) == k.pc = "done" /\ k.attempt >= 1 /\ k.delivered = <<>>

\* A finished review call of the given handler whose e-mail was delivered
Delivered(k, op) == k.pc = "done" /\ k.op = op /\ k.delivered # <<>>

\* C1: userapprove and userreject are fail-closed.  A call whose every
\* provider attempt failed answers 500 with emailSent:false and leaves the
\* stored credential and isVerified as it loaded them; no step of a call
\* that has delivered nothing writes the User collection.
C1_FailClosed ==
    /\ [](\A c \in Callers :
            FailedDelivery(calls[c]) =>
                /\ calls[c].resp[1].status = 500
                /\ calls[c].resp[1].emailSent = Some(FALSE)
                /\ users[calls[c].userId] # <<>>
                /\ Credential(users[calls[c].userId][1]) = Credential(calls[c].user[1]))
    /\ [][\A c \in Callers :
            (calls'[c] # calls[c] /\ calls'[c].delivered = <<>>) => users' = users]_vars

\* An approval ran out of retries on a registered user and answered 500.
C1_Witness ==
    \E c \in Callers :
        /\ FailedDelivery(calls[c])
        /\ calls[c].op = "userapprove"
        /\ calls[c].attempt = MaxRetries
        /\ calls[c].resp = AdminReply(500, Some(FALSE), Some(FALSE))
        /\ users[calls[c].userId] = calls[c].user

\* C2: within one approve call, a delivered credential e-mail ends with the
\* hash of that credential stored, isVerified true and 200 emailSent:true;
\* no approve ends with the e-mail delivered and anything else.
C2_ApproveCommitsWhatItDelivers ==
    \A c \in Callers :
        Delivered(calls[c], "userapprove") =>
            /\ users[calls[c].userId][1].password = Hash(calls[c].newPassword[1])
            /\ users[calls[c].userId][1].isVerified = TRUE
            /\ calls[c].resp = AdminReply(200, Some(TRUE), Some(TRUE))

\* The rejection reason the user record holds, <<>> when it holds none
RecordedReason(doc) ==
    IF "rejectionReason" \in DOMAIN doc THEN doc.rejectionReason ELSE <<>>

Unverified(email) == findOne(email) # <<>> /\ findOne(email)[1].isVerified = FALSE

PasswordMatches(email, password) ==
    BcryptCompare(Trim(password), findOne(email)[1].password)

\* C9 as stated: a login for an existing unverified user answers 402 whether
\* the submitted password is correct or not.
C9_UnverifiedAlways402 ==
    [][\A email \in Emails, password \in LoginPasswords \ {Plain("")} :
        (Unverified(email) /\ login(email, password, TRUE)) =>
            userResp'[1].status = 402]_vars

\* C9 amended: a login for an existing unverified user answers 402 exactly
\* when the submitted password matches the stored hash; a password that
\* does not match is answered 401 "Invalid password", the credential check
\* running first.
C9_Unverified402OnlyWithPassword ==
    [][\A email \in Emails, password \in LoginPasswords \ {Plain("")} :
        (Unverified(email) /\ login(email, password, TRUE)) =>
            /\ userResp'[1].op = "login"
            /\ userResp'[1].cookie = FALSE
            /\ users' = users
            /\ IF PasswordMatches(email, password)
               THEN userResp'[1].status = 402
               ELSE /\ userResp'[1].status = 401
                    /\ userResp'[1].message = "Invalid password"]_vars

\* An unverified user has just been refused for a wrong password.
C9_Witness ==
    /\ userResp # <<>>
    /\ userResp[1].op = "login"
    /\ userResp[1].status = 401
    /\ userResp[1].message = "Invalid password"
    /\ Unverified(userResp[1].email)
    /\ \A c \in Callers : calls[c].pc = "idle"

\* C10: login answers an unknown e-mail exactly as it answers a registered
\* e-mail with a wrong password (same status, same message).
C10_LoginHidesRegistration ==
    \A unknown \in Emails, known \in Emails, password \in LoginPasswords \ {Plain("")} :
        (findOne(unknown) = <<>> /\ findOne(known) # <<>> /\ ~PasswordMatches(known, password))
            => LoginResult(unknown, password, TRUE) = LoginResult(known, password, TRUE)


\* The e-mail exists, the password matches the stored hash, the user is
\* verified, and the store answers.
LoginSucceeds(email, password, dbOk) ==
    /\ email # ""
    /\ ~IsEmptyPassword(password)
    /\ dbOk
    /\ findOne(email) # <<>>
    /\ PasswordMatches(email, password)
    /\ findOne(email)[1].isVerified = TRUE

\* C11: login sets the accessToken cookie and updates lastLogin exactly when
\* the e-mail exists, the password matches the stored hash and isVerified is
\* true (answering 200); every other outcome (400, 401, 402, 500) sets no
\* cookie and leaves every field of every user unchanged.
C11_LoginCookieAndLastLogin ==
    [][\A req \in LoginRequests :
        LET email == req[1]
            password == req[2]
            dbOk == req[3]
        IN
        login(email, password, dbOk) =>
            IF LoginSucceeds(email, password, dbOk)
            THEN /\ userResp'[1].status = 200
                 /\ userResp'[1].cookie = TRUE
                 /\ users'[IdOf(email)][1].lastLogin # findOne(email)[1].lastLogin
                 /\ users' = [users EXCEPT ![IdOf(email)] =
                                Some([@[1] EXCEPT !.lastLogin = users'[IdOf(email)][1].lastLogin])]
            ELSE /\ userResp'[1].status \in {400, 401, 402, 500}
                 /\ userResp'[1].cookie = FALSE
                 /\ users' = users]_vars

\* A verified user has logged in: cookie set, lastLogin stamped.
C11_Witness ==
    /\ userResp # <<>>
    /\ userResp[1].op = "login"
    /\ userResp[1].status = 200
    /\ userResp[1].cookie = TRUE
    /\ findOne(userResp[1].email)[1].lastLogin # <<>>
    /\ findOne(userResp[1].email)[1].isVerified = TRUE


(***************************************************************************)
(* The registration specification: two register requests at a time, over   *)
(* identities that collide on one field or on none.                        *)
(***************************************************************************)

FirstIdentity ==
    RegisterRequest("a@x.io", "9000000001", "PAN0001", "AADHAR0001", TRUE, FileSlots, <<>>)

SecondIdentity ==
    RegisterRequest("b@x.io", "9000000002", "PAN0002", "AADHAR0002", TRUE, FileSlots, <<>>)

\* The second identity with one field of the first
CollidingRequests ==
    {[SecondIdentity EXCEPT !.email = FirstIdentity.email],
     [SecondIdentity EXCEPT !.phone = FirstIdentity.phone],
     [SecondIdentity EXCEPT !.pan = FirstIdentity.pan],
     [SecondIdentity EXCEPT !.aadharNo = FirstIdentity.aadharNo]}

\* Requests short of one document slot each, of a required field, of an
\* identity field.
IncompleteRequests ==
    {[SecondIdentity EXCEPT !.files = FileSlots \ {slot}] : slot \in FileSlots}
        \cup {[SecondIdentity EXCEPT !.otherFields = FALSE],
              [SecondIdentity EXCEPT !.phone = ""]}

RegisterRequests ==
    {FirstIdentity, SecondIdentity, [FirstIdentity EXCEPT !.password = Some(Plain("client"))]}
        \cup CollidingRequests \cup IncompleteRequests

RegisterAny ==
    \E r \in Registrants, req \in RegisterRequests :
        \E dbOk \in IF req = FirstIdentity THEN BOOLEAN ELSE {TRUE} :
            register(r, req, dbOk)

RegisterSaveAny ==
    \E r \in Registrants, dbOk \in BOOLEAN : registerSave(r, Plain("pwA"), dbOk)

NextRegister ==
    \/ RegisterAny
    \/ RegisterSaveAny
    \/ RegisterNotify

SpecRegister == Init /\ [][NextRegister]_vars

(***************************************************************************)
(* Claims about registration                                               *)
(***************************************************************************)

NewUsers == {id \in UserIds : users[id] = <<>> /\ users'[id] # <<>>}

\* C12: a register request short of a document slot or of a required field
\* is answered 400 and neither stores a user nor goes on to the save; a
\* complete request that collides with no stored user goes on to the save,
\* and a save that breaks no index answers 201 and stores exactly one new
\* user, unverified, whose credential is the server-generated password and
\* never the password the client sent.
C12_RegisterCreatesOneUnverifiedUser ==
    [][\A r \in Registrants :
        /\ \A req \in RegisterRequests :
              register(r, req, TRUE) =>
                  IF RegisterValidation(req) # <<>>
                  THEN /\ userResp' # <<>>
                       /\ userResp'[1].status = 400
                       /\ users' = users
                       /\ regs' = regs
                  ELSE ~userExists(req) =>
                          /\ regs'[r] = [pc |-> "save", req |-> Some(req)]
                          /\ users' = users
        /\ \A g \in GeneratedPasswords :
              (/\ regs[r].pc = "save"
               /\ registerSave(r, g, TRUE)
               /\ ~UniqueIndexViolation(regs[r].req[1])) =>
                  /\ userResp'[1].status = 201
                  /\ Cardinality(NewUsers) = 1
                  /\ \A id \in UserIds \ NewUsers : users'[id] = users[id]
                  /\ \A id \in NewUsers :
                        /\ users'[id][1].isVerified = FALSE
                        /\ users'[id][1].email = regs[r].req[1].email
                        /\ users'[id][1].password = Hash(g)
                        /\ users'[id][1].generatedPassword = g
                        /\ regs[r].req[1].password # <<>> =>
                              users'[id][1].password # Hash(regs[r].req[1].password[1])]_vars

\* A registration answered 201 with its one user stored unverified under the
\* generated password
C12_Witness ==
    /\ userResp # <<>>
    /\ userResp[1].op = "register"
    /\ userResp[1].status = 201
    /\ \E id \in UserIds :
          /\ users[id] # <<>>
          /\ users[id][1].email = userResp[1].email
          /\ users[id][1].isVerified = FALSE
          /\ users[id][1].password = Hash(Plain("pwA"))
    /\ Cardinality({id \in UserIds : users[id] # <<>>}) = 1

StoredUsers == {id \in UserIds : users[id] # <<>>}

NoSharedIdentity ==
    \A i \in StoredUsers, j \in StoredUsers :
        i # j => ~Collides(users[i][1], users[j][1])

\* C13: whatever the interleaving of register calls, no two stored users
\* share an email, phone, pan or aadharNo; a register that collides with a
\* stored user on any of the four is answered 400 and stores nothing, at the
\* existence query and at the save alike, so that of two concurrent
\* colliding registrations that both passed the query only one is stored.
C13_IdentityFieldsStayUnique ==
    /\ []NoSharedIdentity
    /\ [][\A r \in Registrants :
            /\ \A req \in RegisterRequests :
                  (/\ RegisterValidation(req) = <<>>
                   /\ userExists(req)
                   /\ register(r, req, TRUE)) =>
                      /\ userResp'[1].status = 400
                      /\ users' = users
                      /\ regs' = regs
            /\ (/\ regs[r].pc = "save"
                /\ \E id \in StoredUsers : Collides(users[id][1], regs[r].req[1])
                /\ \E g \in GeneratedPasswords, dbOk \in BOOLEAN : registerSave(r, g, dbOk)) =>
                   /\ userResp'[1].status \in {400, 500}
                   /\ users' = users
                   /\ pendingMail' = pendingMail]_vars

\* Two registrations passed the existence query together, one was stored and
\* the save of the other was answered 400.
C13_Witness ==
    /\ userResp # <<>>
    /\ userResp[1].op = "register"
    /\ userResp[1].status = 400
    /\ userResp[1].message = "A user with this field already exists"
    /\ Cardinality(StoredUsers) = 1
    /\ \A r \in Registrants : regs[r].pc = "idle"

\* C14: the 'under review' notification of a registration is attempted only
\* for a user already written, and whatever the providers answer the attempt
\* changes neither the response (201) nor any stored user (still
\* isVerified = false).
C14_NotificationAfterWriteAndInert ==
    /\ [](\A id \in pendingMail : users[id] # <<>>)
    /\ [][\A id \in UserIds, resendOk \in BOOLEAN, smtpResult \in SmtpResults :
            registerNotify(id, resendOk, smtpResult) =>
                /\ users[id] # <<>>
                /\ users' = users
                /\ userResp' = userResp
                /\ regs' = regs]_vars

\* A registration answered 201 whose notification was attempted with no
\* provider able to deliver: the user is stored, unverified.
C14_Witness ==
    /\ ~env.resend
    /\ ~env.smtp
    /\ pendingMail = {}
    /\ userResp # <<>>
    /\ userResp[1].op = "register"
    /\ userResp[1].status = 201
    /\ \E id \in UserIds :
          /\ users[id] # <<>>
          /\ users[id][1].email = userResp[1].email
          /\ ~users[id][1].isVerified

(***************************************************************************)
(* changePassword, and the specification that registers one applicant and  *)
(* lets the stored users change their passwords.                           *)
(***************************************************************************)

\* changePassword for the session of req.user.id: the two field checks, the
\* lookup, the comparison with the stored hash, then the assignment and
\* save() (the pre-save hook hashes the new password).
changePassword(id, oldPassword, newPassword, dbOk) ==
    LET reply(status, message) == UserReply("changePassword", "", status, message, FALSE)
    IN  /\ IF IsEmptyPassword(oldPassword) \/ IsEmptyPassword(newPassword)
           THEN /\ userResp' = reply(400, "Please provide old password and new password")
                /\ UNCHANGED users
           ELSE IF oldPassword = newPassword
           THEN /\ userResp' = reply(400, "Old password and new password cannot be same")
                /\ UNCHANGED users
           ELSE IF ~dbOk
           THEN /\ userResp' = reply(500, "Internal server error")
                /\ UNCHANGED users
           ELSE IF users[id] = <<>>
           THEN /\ userResp' = reply(401, "User not found")
                /\ UNCHANGED users
           ELSE IF ~BcryptCompare(oldPassword, users[id][1].password)
           THEN /\ userResp' = reply(401, "Invalid old password")
                /\ UNCHANGED users
           ELSE /\ users' = [users EXCEPT ![id] =
                        Some(SaveUser(@[1], @[1], [password |-> newPassword]))]
                /\ userResp' = reply(200, "change password success")
        /\ UNCHANGED <<ledgerVars, settingsVars, regs, calls, env, transporterInstance,
                       pendingMail>>

ChangePassword ==
    \E id \in UserIds, oldPassword \in LoginPasswords, newPassword \in LoginPasswords :
        \E dbOk \in IF oldPassword = Plain("pwA") /\ newPassword = Plain("pwB")
                    THEN BOOLEAN ELSE {TRUE} :
            changePassword(id, oldPassword, newPassword, dbOk)

NextPassword ==
    \/ Register
    \/ RegisterSave
    \/ RegisterNotify
    \/ ChangePassword

SpecPassword == Init /\ [][NextPassword]_vars

\* C15: changePassword replaces the stored hash, by the hash of the new
\* password, only when the old password matches the stored hash and the new
\* one differs from the old; a missing field (400), a new password equal to
\* the old (400) and an old password that does not match (401) leave every
\* stored user as it was.
C15_ChangePasswordOnlyOnMatch ==
    [][\A id \in UserIds, oldPassword \in LoginPasswords, newPassword \in LoginPasswords :
        changePassword(id, oldPassword, newPassword, TRUE) =>
            IF IsEmptyPassword(oldPassword) \/ IsEmptyPassword(newPassword)
            THEN userResp'[1].status = 400 /\ users' = users
            ELSE IF newPassword = oldPassword
            THEN userResp'[1].status = 400 /\ users' = users
            ELSE IF users[id] # <<>> /\ users[id][1].password # Hash(oldPassword)
            THEN userResp'[1].status = 401 /\ users' = users
            ELSE IF users[id] # <<>>
            THEN /\ userResp'[1].status = 200
                 /\ users'[id] # <<>>
                 /\ users'[id][1].password = Hash(newPassword)
                 /\ users'[id][1].password # users[id][1].password
                 /\ \A other \in UserIds \ {id} : users'[other] = users[other]
            ELSE users' = users]_vars

\* A password changed away from the generated one
C15_Witness ==
    /\ userResp # <<>>
    /\ userResp[1].op = "changePassword"
    /\ userResp[1].status = 200
    /\ \E id \in UserIds :
          /\ users[id] # <<>>
          /\ users[id][1].generatedPassword = Plain("pwA")
          /\ users[id][1].password = Hash(Plain("pwB"))

(***************************************************************************)
(* The Settings model and the bank-details visibility handlers             *)
(***************************************************************************)

\* A key is its text and whether white space surrounds it; the schema trims
\* keys (trim: true) wherever it casts them.
SettingKeys == {Plain("showBankDetails"), Padded("showBankDetails"), Plain("theme")}

SettingValues == BOOLEAN

Descriptions == {"", "Controls whether bank transfer option is shown to users during deposit"}

\* this.findOne({ key }): the position of the record, 0 when there is none
FindSetting(key) ==
    IF \E i \in DOMAIN settings : settings[i].key = Trim(key)
    THEN CHOOSE i \in DOMAIN settings : settings[i].key = Trim(key)
    ELSE 0

\* A getSetting that reads the value for the test
getSettingTruthyValue(key, defaultValue) ==
    IF FindSetting(key) # 0 /\ settings[FindSetting(key)].value
    THEN settings[FindSetting(key)].value
    ELSE defaultValue

\* What getSetting returns: setting ? setting.value : defaultValue
getSettingValue(key, defaultValue) ==
    IF FindSetting(key) # 0 THEN settings[FindSetting(key)].value ELSE defaultValue

\* Settings.getSetting(key, defaultValue)
getSetting(key, defaultValue, dbOk) ==
    /\ settingResp' =
          IF dbOk
          THEN Some([op |-> "getSetting", key |-> key, thrown |-> FALSE,
                     value |-> getSettingValue(key, defaultValue)])
          ELSE Some([op |-> "getSetting", key |-> key, thrown |-> TRUE,
                     value |-> defaultValue])
    /\ UNCHANGED <<settings, ledgerVars, accountVars>>

\* The collection after findOneAndUpdate({ key }, { key, value, description },
\* { upsert: true, new: true })
Upsert(key, value, description) ==
    LET record == [key |-> Trim(key), value |-> value, description |-> description]
    IN  IF FindSetting(key) # 0
        THEN [settings EXCEPT ![FindSetting(key)] = record]
        ELSE Append(settings, record)

\* Settings.setSetting(key, value, description)
setSetting(key, value, description, dbOk) ==
    /\ settings' = IF dbOk THEN Upsert(key, value, description) ELSE settings
    /\ settingResp' = Some([op |-> "setSetting", key |-> key, thrown |-> ~dbOk,
                            value |-> value])
    /\ UNCHANGED <<ledgerVars, accountVars>>

\* getBankDetailsVisibility: the setting, true when it was never set
getBankDetailsVisibility(dbOk) ==
    /\ settingResp' =
          IF dbOk
          THEN Some([op |-> "getBankDetailsVisibility", status |-> 200,
                     showBankDetails |-> Some(getSettingValue(Plain("showBankDetails"), TRUE))])
          ELSE Some([op |-> "getBankDetailsVisibility", status |-> 500,
                     showBankDetails |-> <<>>])
    /\ UNCHANGED <<settings, ledgerVars, accountVars>>

\* req.body.showBankDetails by its typeof, and its value when it is a boolean
VisibilityBodies ==
    {[typeof |-> "boolean", value |-> Some(TRUE)],
     [typeof |-> "boolean", value |-> Some(FALSE)],
     [typeof |-> "string", value |-> <<>>],
     [typeof |-> "undefined", value |-> <<>>]}

\* updateBankDetailsVisibility: a boolean is stored, anything else is a 400
updateBankDetailsVisibility(body, dbOk) ==
    /\ IF body.typeof # "boolean"
       THEN /\ settingResp' = Some([op |-> "updateBankDetailsVisibility", status |-> 400,
                                    showBankDetails |-> <<>>])
            /\ UNCHANGED settings
       ELSE IF ~dbOk
       THEN /\ settingResp' = Some([op |-> "updateBankDetailsVisibility", status |-> 500,
                                    showBankDetails |-> <<>>])
            /\ UNCHANGED settings
       ELSE /\ settings' = Upsert(Plain("showBankDetails"), body.value[1],
                                  "Controls whether bank transfer option is shown to users during deposit")
            /\ settingResp' = Some([op |-> "updateBankDetailsVisibility", status |-> 200,
                                    showBankDetails |-> body.value])
    /\ UNCHANGED <<ledgerVars, accountVars>>

GetSetting ==
    \E key \in SettingKeys, defaultValue \in SettingValues, dbOk \in BOOLEAN :
        getSetting(key, defaultValue, dbOk)

SetSetting ==
    \E key \in SettingKeys, value \in SettingValues, description \in Descriptions,
       dbOk \in BOOLEAN :
        setSetting(key, value, description, dbOk)

GetBankDetailsVisibility == \E dbOk \in BOOLEAN : getBankDetailsVisibility(dbOk)

UpdateBankDetailsVisibility ==
    \E body \in VisibilityBodies, dbOk \in BOOLEAN : updateBankDetailsVisibility(body, dbOk)

NextSettings ==
    \/ GetSetting
    \/ SetSetting
    \/ GetBankDetailsVisibility
    \/ UpdateBankDetailsVisibility

SpecSettings == Init /\ [][NextSettings]_vars

OneRecordPerKey ==
    \A i \in DOMAIN settings, j \in DOMAIN settings :
        i # j => settings[i].key # settings[j].key

\* C16: a setSetting(k, v) makes every getSetting(k, d) return v, boolean
\* false included, until the next set of k (the last write wins, and a set
\* of another key or a read changes nothing for k); there is at most one
\* record per key; a getSetting of a key never set returns its default and
\* creates no record.
C16_SettingsReadYourWrite ==
    /\ []OneRecordPerKey
    /\ [][/\ \A key \in SettingKeys, value \in SettingValues, description \in Descriptions :
                setSetting(key, value, description, TRUE) =>
                    /\ \A d \in SettingValues : getSettingValue(key, d)' = value
                    /\ \A other \in SettingKeys, d \in SettingValues :
                          Trim(other) # Trim(key) =>
                              getSettingValue(other, d)' = getSettingValue(other, d)
          /\ \A key \in SettingKeys, d \in SettingValues :
                getSetting(key, d, TRUE) =>
                    /\ settings' = settings
                    /\ settingResp'[1].value = getSettingValue(key, d)
                    /\ FindSetting(key) = 0 => settingResp'[1].value = d
          /\ \A body \in VisibilityBodies :
                (body.typeof = "boolean" /\ updateBankDetailsVisibility(body, TRUE)) =>
                    \A d \in SettingValues :
                        getSettingValue(Plain("showBankDetails"), d)' = body.value[1]
          /\ getBankDetailsVisibility(TRUE) =>
                /\ settings' = settings
                /\ settingResp'[1].showBankDetails =
                      Some(getSettingValue(Plain("showBankDetails"), TRUE))]_vars

\* The key was set to false and then read with the default true: the read
\* returned false.
C16_Witness ==
    /\ settingResp # <<>>
    /\ settingResp[1].op = "getSetting"
    /\ ~settingResp[1].thrown
    /\ settingResp[1].key = Plain("showBankDetails")
    /\ settingResp[1].value = FALSE
    /\ FindSetting(Plain("showBankDetails")) # 0
    /\ settings[FindSetting(Plain("showBankDetails"))].value = FALSE
    /\ Len(settings) = 2

(***************************************************************************)
(* Claims about the notification gateway                                   *)
(***************************************************************************)

\* The mails handed to sendEmail: one recipient, two with a falsy entry
\* between them, none; with and without a sender of the caller's.
MailInputs ==
    {MailOptions(to, from, "Profile Approved - Your Login Credentials", "Dear user") :
        to \in {<<"a@x.io">>, <<"a@x.io", "", "b@x.io">>, <<"">>},
        from \in {<<>>, Some("support@x.io")}}

\* C17: in every state and for every mail and provider answer, sendEmail
\* contacts the SMTP transporter only after the Resend API was contacted
\* and failed, or when no Resend client is configured; when the Resend API
\* accepts the mail nothing else is contacted and the result names resend;
\* on fallback the transporter is handed the same sender, recipients,
\* subject and body as the API was, and a delivery names smtp.
C17_ProviderOrdering ==
    \A mailOptions \in MailInputs, resendOk \in BOOLEAN, smtpResult \in SmtpResults :
        LET out == sendEmail(mailOptions, resendOk, smtpResult)
            trace == out.contacted
        IN  /\ \A i \in DOMAIN trace :
                  trace[i].provider = "smtp" =>
                      \/ i = 2 /\ trace[1].provider = "resend" /\ ~resendOk
                      \/ i = 1 /\ getResendClient = <<>>
            /\ \A i \in DOMAIN trace : trace[i].provider = "resend" => i = 1
            /\ (trace # <<>> /\ trace[1].provider = "resend" /\ resendOk) =>
                  /\ Len(trace) = 1
                  /\ out.ok
                  /\ out.provider = "resend"
            /\ Len(trace) = 2 =>
                  /\ trace[2].from = trace[1].from
                  /\ trace[2].to = Join(trace[1].to)
                  /\ trace[2].subject = trace[1].subject
                  /\ trace[2].text = trace[1].text
                  /\ trace[2].html = trace[1].html
                  /\ smtpResult = "ok" => out.ok /\ out.provider = "smtp"
            /\ \A i \in DOMAIN trace :
                  /\ trace[i].subject = mailOptions.subject
                  /\ trace[i].text = mailOptions.text
                  /\ trace[i].from = SenderAddress(mailOptions)
            /\ out.ok => trace # <<>> /\ trace[Len(trace)].provider = out.provider

\* Both providers are configured and the notice of a registration went
\* through the SMTP transporter, created on the fallback.
C17_Witness ==
    /\ env.resend
    /\ env.smtp
    /\ transporterInstance # <<>>
    /\ pendingMail = {}
    /\ \E id \in UserIds : users[id] # <<>>
    /\ LET out == sendEmail(UserMail("a@x.io", "Profile Approval Request Submitted"),
                            FALSE, "ok")
       IN  /\ Len(out.contacted) = 2
           /\ out.provider = "smtp"

(***************************************************************************)
(* The review specification: one applicant registers and one admin         *)
(* approves and rejects, each call sending its mail through                *)
(* sendEmailWithRetry.                                                     *)
(***************************************************************************)

NextReview ==
    \/ Register
    \/ RegisterSave
    \/ RegisterNotify
    \/ Approve
    \/ Reject
    \/ SendAttempt
    \/ SendWait
    \/ ApproveSave
    \/ RejectSave
    \/ Responded

SpecReview == Init /\ [][NextReview]_vars

\* The back-off times of a call that made `attempt` attempts so far
WaitsBefore(attempt) ==
    IF attempt <= 1 THEN <<>>
    ELSE IF attempt = 2 THEN <<2000>>
    ELSE <<2000, 4000>>

\* C18: sendEmailWithRetry as userapprove and userreject call it makes at
\* most 3 attempts; a successful attempt returns to the handler with no
\* further attempt; after failed attempt k < 3 it waits
\* min(2000 * 2^(k-1), 10000) ms, that is 2000 ms and then 4000 ms, before
\* attempt k+1; a third failure ends the call with no wait, throwing the
\* error of that attempt to the handler.
C18_RetryPolicy ==
    /\ [](\A c \in Callers :
            /\ calls[c].attempt <= MaxRetries
            /\ calls[c].waited = WaitsBefore(calls[c].attempt)
            /\ \A k \in DOMAIN calls[c].waited :
                  /\ calls[c].waited[k] <= 10000
                  /\ calls[c].waited[k] = 2000 * 2^(k - 1))
    /\ [][\A c \in Callers :
            /\ \A resendOk \in BOOLEAN, smtpResult \in SmtpResults :
                  sendEmailWithRetryAttempt(c, resendOk, smtpResult) =>
                      LET out == sendEmail(ReviewMail(calls[c]), resendOk, smtpResult)
                      IN  /\ calls'[c].attempt = calls[c].attempt
                          /\ calls'[c].waited = calls[c].waited
                          /\ out.ok => calls'[c].pc = "save"
                          /\ (~out.ok /\ calls[c].attempt < MaxRetries) =>
                                calls'[c].pc = "wait"
                          /\ (~out.ok /\ calls[c].attempt = MaxRetries) =>
                                /\ calls'[c].pc = "done"
                                /\ calls'[c].resp[1].status = 500
                                /\ calls'[c].lastError = out.code
            /\ sendEmailWithRetryWait(c) =>
                  /\ calls'[c].pc = "send"
                  /\ calls'[c].attempt = calls[c].attempt + 1
                  /\ calls'[c].waited =
                        Append(calls[c].waited,
                               IF calls[c].attempt = 1 THEN 2000 ELSE 4000)
            /\ calls[c].pc = "save" => calls'[c].pc \in {"save", "done"}
            /\ calls[c].pc = "send" => calls'[c].pc \in {"send", "save", "wait", "done"}]_vars

\* Three attempts failed, the waits were 2000 ms and 4000 ms, and the call
\* ended on the error of the third attempt.
C18_Witness ==
    \E c \in Callers :
        /\ calls[c].pc = "done"
        /\ calls[c].attempt = MaxRetries
        /\ calls[c].waited = <<2000, 4000>>
        /\ calls[c].lastError = Some("ECONNRESET")
        /\ calls[c].resp[1].status = 500

(***************************************************************************)
(* Claims about the ledger documents                                       *)
(***************************************************************************)

\* C19: a cash transaction whose status is COMPLETED keeps its status, type
\* and amount through every approveWithdrawal, rejectWithdrawal,
\* approveDeposit, rejectDeposit and updateTransactionStatus call.
C19_CompletedIsImmutable ==
    [][\A i \in DOMAIN txs :
          txs[i].status = "COMPLETED" =>
              /\ i \in DOMAIN txs'
              /\ txs'[i].status = "COMPLETED"
              /\ txs'[i].type = txs[i].type
              /\ txs'[i].amount = txs[i].amount
              /\ txs'[i].userId = txs[i].userId]_vars

(***************************************************************************)
(* The trade specification: trades are created and edited field by field.  *)
(***************************************************************************)

\* Edits of the quantity alone, of the buy price alone, of both, a close, a
\* sell price alone, and a close that carries the three numbers with the
\* type and without it
TradeEdits ==
    {[NoUpdate EXCEPT !.quantity = Some(q)] : q \in {1, 2}}
        \cup {[NoUpdate EXCEPT !.buyPrice = Some(p)] : p \in {500, 600}}
        \cup {[NoUpdate EXCEPT !.quantity = Some(2), !.buyPrice = Some(600)],
              [NoUpdate EXCEPT !.status = Some("CLOSED")],
              [NoUpdate EXCEPT !.sellPrice = Some(800)],
              [NoUpdate EXCEPT !.status = Some("CLOSED"), !.quantity = Some(1),
                               !.buyPrice = Some(500), !.sellPrice = Some(800)],
              [NoUpdate EXCEPT !.status = Some("CLOSED"), !.type = Some("LONG"),
                               !.quantity = Some(1), !.buyPrice = Some(500),
                               !.sellPrice = Some(800)]}

TradesCreateTrade ==
    \E userId \in UserIds, quantity \in {<<>>, Some(1), Some(2)}, dbOk \in BOOLEAN :
        createTrade(Some(userId), Some("EURUSD"), Some("long"), quantity, Some(500),
                    <<>>, <<>>, dbOk)

TradesUpdateTrade ==
    \E tradeId \in IdInputs(orders), updateData \in TradeEdits :
        \E dbOk \in IF tradeId = 1 /\ updateData.sellPrice # <<>> THEN BOOLEAN ELSE {TRUE} :
            updateTrade(tradeId, updateData, dbOk)

NextTrades ==
    \/ TradesCreateTrade
    \/ TradesUpdateTrade

SpecTrades == InitLedger /\ [][NextTrades]_vars

\* C20: every stored order has tradeAmount = quantity * buyPrice, after
\* createTrade and after every updateTrade, an update of the quantity alone
\* or of the buy price alone included.
C20_TradeAmountInvariant ==
    \A i \in DOMAIN orders :
        orders[i].tradeAmount = orders[i].quantity * orders[i].buyPrice

\* C21: every stored order has priceRange.mid = buyPrice, after createTrade
\* and after every updateTrade, an update of the buy price that sends no
\* price range included.
C21_MidIsBuyPrice ==
    \A i \in DOMAIN orders : orders[i].priceRange.mid = orders[i].buyPrice

\* C22: whenever an updateTrade sets the profitLoss of an order, the value is
\* sellPrice * quantity - buyPrice * quantity for an order stored as LONG and
\* buyPrice * quantity - sellPrice * quantity for one stored as SHORT,
\* whether or not the request repeats the type.
C22_ProfitLossFollowsStoredType ==
    [][\A i \in DOMAIN orders :
          (/\ i \in DOMAIN orders'
           /\ orders'[i].profitLoss # orders[i].profitLoss
           /\ orders'[i].profitLoss # <<>>) =>
              LET o == orders'[i]
                  buyTotal == o.buyPrice * o.quantity
              IN  /\ o.sellPrice # <<>>
                  /\ o.type = orders[i].type
                  /\ o.profitLoss[1] =
                        IF o.type = "LONG"
                        THEN o.sellPrice[1] * o.quantity - buyTotal
                        ELSE buyTotal - o.sellPrice[1] * o.quantity]_vars

\* C30: a stored order has a profitLoss iff its buyPrice, sellPrice and
\* quantity are all present (a created order always has its buyPrice and its
\* quantity), after createTrade and after every updateTrade, an update of
\* the sell price alone included.
C30_ProfitLossIffPriced ==
    \A i \in DOMAIN orders :
        orders[i].profitLoss # <<>> <=> orders[i].sellPrice # <<>>

(***************************************************************************)
(* getAlluserKpis: the trend figures of the admin dashboard                *)
(***************************************************************************)

\* The largest user count the dashboard specification draws
MaxKpiCount == 3

\* Integer division rounded to the nearest integer, halves away from zero
\* (b > 0)
RoundDiv(a, b) ==
    IF a >= 0 THEN (2 * a + b) \div (2 * b)
    ELSE 0 - ((2 * (0 - a) + b) \div (2 * b))

\* (((current - previous) / previous) * 100).toFixed(1) as a number of
\* tenths; a division by zero yields Infinity or NaN, which toFixed prints
\* as such.
ToFixed1Percent(current, previous) ==
    IF previous # 0
    THEN [kind |-> "finite", tenths |-> RoundDiv(1000 * (current - previous), previous)]
    ELSE IF current = 0 THEN [kind |-> "NaN", tenths |-> 0]
    ELSE [kind |-> "Infinity", tenths |-> 0]

\* A trend computed without the test of the previous total
TrendUnguarded(current, previous) == ToFixed1Percent(current, previous)

\* previous > 0 ? (...).toFixed(1) : current > 0 ? 100 : 0
Trend(current, previous) ==
    IF previous > 0 THEN ToFixed1Percent(current, previous)
    ELSE IF current > 0 THEN [kind |-> "finite", tenths |-> 1000]
    ELSE [kind |-> "finite", tenths |-> 0]

\* A current and a previous-period total
Figure(current, previous) == [current |-> current, previous |-> previous]

\* GET the admin KPIs: the counts and sums the queries return, and the four
\* trends computed from them; a failing query is answered 500.
getAlluserKpis(userCounts, traders, withdrawals, deposits, dbOk) ==
    /\ resp' = IF ~dbOk THEN Reply(500)
               ELSE Some([op |-> "getAlluserKpis", status |-> 200,
                          figures |-> <<userCounts, traders, withdrawals, deposits>>,
                          trends |-> <<Trend(userCounts.current, userCounts.previous),
                                       Trend(traders.current, traders.previous),
                                       Trend(withdrawals.current, withdrawals.previous),
                                       Trend(deposits.current, deposits.previous)>>])
    /\ UNCHANGED <<txs, orders, accountVars, settingsVars>>

Figures(values) == {Figure(c, p) : c \in values, p \in values}

KpiRead ==
    \E userCounts \in Figures(0..MaxKpiCount), traders \in Figures({0, 1}),
       withdrawals \in Figures({0, 500}), deposits \in Figures({0, 1000}) :
        \E dbOk \in IF userCounts = Figure(0, 0) /\ traders = Figure(0, 0) THEN BOOLEAN ELSE {TRUE} :
            getAlluserKpis(userCounts, traders, withdrawals, deposits, dbOk)

NextKpis ==
    \/ KpiRead
    \/ LedgerDashboardRead

SpecKpis == InitLedger /\ [][NextKpis]_vars

KpisAnswered == resp # <<>> /\ resp[1].status = 200 /\ resp[1].op = "getAlluserKpis"

\* C23 as claimed: with a positive previous total p the trend is exactly
\* (current - p) / p * 100.
C23_TrendExact ==
    KpisAnswered =>
        \A k \in 1..4 :
            LET f == resp[1].figures[k]
                t == resp[1].trends[k]
            IN  /\ t.kind = "finite"
                /\ f.previous = 0 => t.tenths = IF f.current # 0 THEN 1000 ELSE 0
                /\ f.previous > 0 =>
                      t.tenths * f.previous = 1000 * (f.current - f.previous)

\* C23: no trend of getAlluserKpis is the result of a division by zero; with
\* a previous total of 0 the trend is 100 when the current total is not 0
\* and 0 when it is; with a positive previous total p the trend is
\* (current - p) / p * 100 rounded to one decimal place.
C23_TrendRounded ==
    KpisAnswered =>
        \A k \in 1..4 :
            LET f == resp[1].figures[k]
                t == resp[1].trends[k]
                off == t.tenths * f.previous - 1000 * (f.current - f.previous)
            IN  /\ t.kind = "finite"
                /\ f.previous = 0 => t.tenths = IF f.current # 0 THEN 1000 ELSE 0
                /\ f.previous > 0 =>
                      /\ 2 * off <= f.previous
                      /\ 2 * (0 - off) <= f.previous

\* One user now and three in the previous period: -66.7; pending withdrawals
\* of 500 after none: 100; no deposits in either period: 0.
C23_Witness ==
    /\ KpisAnswered
    /\ resp[1].figures[1] = Figure(1, 3)
    /\ resp[1].trends[1].tenths = 0 - 667
    /\ resp[1].figures[3] = Figure(500, 0)
    /\ resp[1].trends[3].tenths = 1000
    /\ resp[1].figures[4] = Figure(0, 0)
    /\ resp[1].trends[4].tenths = 0

(***************************************************************************)
(* The session handlers that read the user of the session, and what each   *)
(* leaves of a request: the one response it sent, or the error it threw    *)
(* out of the handler without having sent one.                             *)
(***************************************************************************)

Answered(op, userId, status) ==
    Some([op |-> op, userId |-> userId, status |-> Some(status), thrown |-> <<>>])

\* The handler's promise rejects: no res.status(...).json(...) was reached
Thrown(op, userId, error) ==
    Some([op |-> op, userId |-> userId, status |-> <<>>, thrown |-> Some(error)])

\* logout: findByIdAndUpdate outside any try, then 200 whether or not the
\* user exists
logout(userId, dbOk) ==
    /\ resp' = IF ~dbOk THEN Thrown("logout", userId, "MongoError")
               ELSE Answered("logout", userId, 200)
    /\ UNCHANGED <<txs, orders, accountVars, settingsVars>>

\* dashboard: findById outside any try
dashboard(userId, dbOk) ==
    /\ resp' = IF ~dbOk THEN Thrown("dashboard", userId, "MongoError")
               ELSE IF users[userId] = <<>> THEN Answered("dashboard", userId, 400)
               ELSE Answered("dashboard", userId, 200)
    /\ UNCHANGED <<txs, orders, accountVars, settingsVars>>

\* getLastLogin: the catch throws an ApiError in its turn
getLastLogin(userId, dbOk) ==
    /\ resp' = IF ~dbOk THEN Thrown("getLastLogin", userId, "ApiError")
               ELSE IF users[userId] = <<>> THEN Answered("getLastLogin", userId, 404)
               ELSE Answered("getLastLogin", userId, 201)
    /\ UNCHANGED <<txs, orders, accountVars, settingsVars>>

\* getOrderHistory: the catch throws an ApiError in its turn
getOrderHistory(userId, dbOk) ==
    /\ resp' = IF ~dbOk THEN Thrown("getOrderHistory", userId, "ApiError")
               ELSE Answered("getOrderHistory", userId, 200)
    /\ UNCHANGED <<txs, orders, accountVars, settingsVars>>

\* getPersonalInfo: the catch throws an ApiError in its turn
getPersonalInfo(userId, dbOk) ==
    /\ resp' = IF ~dbOk THEN Thrown("getPersonalInfo", userId, "ApiError")
               ELSE IF users[userId] = <<>> THEN Answered("getPersonalInfo", userId, 404)
               ELSE Answered("getPersonalInfo", userId, 200)
    /\ UNCHANGED <<txs, orders, accountVars, settingsVars>>

SessionLogout == \E userId \in UserIds, dbOk \in BOOLEAN : logout(userId, dbOk)

SessionDashboard == \E userId \in UserIds, dbOk \in BOOLEAN : dashboard(userId, dbOk)

SessionGetLastLogin == \E userId \in UserIds, dbOk \in BOOLEAN : getLastLogin(userId, dbOk)

SessionGetOrderHistory == \E userId \in UserIds, dbOk \in BOOLEAN : getOrderHistory(userId, dbOk)

SessionGetPersonalInfo == \E userId \in UserIds, dbOk \in BOOLEAN : getPersonalInfo(userId, dbOk)

NextSession ==
    \/ Register
    \/ RegisterSave
    \/ SessionLogout
    \/ SessionDashboard
    \/ SessionGetLastLogin
    \/ SessionGetOrderHistory
    \/ SessionGetPersonalInfo

SpecSession == InitLedger /\ [][NextSession]_vars

\* C24: whatever fails inside it, a handler leaves its request with exactly
\* one response sent and with no error thrown out of the handler.
C24_EveryRequestAnswered ==
    (resp # <<>> /\ "thrown" \in DOMAIN resp[1]) =>
        /\ resp[1].status # <<>>
        /\ resp[1].thrown = <<>>

(***************************************************************************)
(* Claims about the retries of the gateway                                 *)
(***************************************************************************)

\* C25: within one sendEmailWithRetry call the Resend API is contacted at
\* most once: an attempt after the first, which follows a failed attempt,
\* hands the mail to the SMTP transporter only.
C25_ApiAttemptedOnce ==
    [][\A c \in Callers, resendOk \in BOOLEAN, smtpResult \in SmtpResults :
          (/\ calls[c].pc = "send"
           /\ calls[c].attempt > 1
           /\ sendEmailWithRetryAttempt(c, resendOk, smtpResult)) =>
              LET trace == sendEmail(ReviewMail(calls[c]), resendOk, smtpResult).contacted
              IN  \A i \in DOMAIN trace : trace[i].provider # "resend"]_vars

\* C26: when an attempt of sendEmailWithRetry fails with a connection-class
\* error (ETIMEDOUT, ECONNRESET, ESOCKET, ECONNREFUSED) and another attempt
\* remains, the cached transporter is discarded before the next attempt,
\* which then runs on a transporter created anew; after a failure of any
\* other kind the next attempt starts with the cache as the failed attempt
\* left it.
C26_TransporterResetOnConnectionError ==
    [][\A c \in Callers :
          sendEmailWithRetryWait(c) =>
              IF calls[c].lastError # <<>>
                 /\ calls[c].lastError[1] \in {"ETIMEDOUT", "ECONNRESET", "ESOCKET", "ECONNREFUSED"}
              THEN /\ transporterInstance # <<>>
                   /\ transporterInstance' = <<>>
                   /\ getTransporter' = createTransporter
                   /\ calls'[c].pc = "send"
              ELSE /\ transporterInstance' = transporterInstance
                   /\ calls'[c].pc = "send"]_vars

\* A call on its second attempt after a connection reset: the cache is empty
C26_Witness ==
    \E c \in Callers :
        /\ calls[c].pc = "send"
        /\ calls[c].attempt = 2
        /\ env.smtp
        /\ transporterInstance = <<>>

\* C27: in every reachable state the status of each cash transaction is one
\* of PENDING, COMPLETED, CANCELLED, FAILED, and an updateTransactionStatus
\* request with any other status is answered 400 and changes no transaction.
C27_StatusStaysInEnum ==
    /\ [](\A i \in DOMAIN txs : txs[i].status \in TxStatusEnum)
    /\ [][\A id \in IdInputs(txs), status \in (validStatuses \cup {"DONE"}) \ TxStatusEnum :
            updateTransactionStatus(id, status, TRUE) =>
                /\ resp' = Reply(400)
                /\ txs' = txs]_vars

(***************************************************************************)
(* The concurrent-approval specification: one applicant registers and two  *)
(* admin sessions approve that user, their steps interleaving freely.      *)
(***************************************************************************)

ApprovalsRegister == \E r \in Clerks : register(r, ApplicantRequest("a@x.io"), TRUE)

ApprovalsRegisterSave == \E r \in Clerks : registerSave(r, Plain("pwA"), TRUE)

ApprovalsApprove ==
    \E c \in Callers, newPassword \in GeneratedPasswords :
        userapprove(c, "u1", newPassword, TRUE)

ApprovalsSendAttempt ==
    \E c \in Callers, resendOk \in BOOLEAN, smtpResult \in {"ok", "ECONNRESET"} :
        sendEmailWithRetryAttempt(c, resendOk, smtpResult)

ApprovalsSendWait == \E c \in Callers : sendEmailWithRetryWait(c)

ApprovalsSave == \E c \in Callers, dbOk \in BOOLEAN : userapproveSave(c, dbOk)

ApprovalsResponded == \E c \in Callers : Respond(c)

NextApprovals ==
    \/ ApprovalsRegister
    \/ ApprovalsRegisterSave
    \/ ApprovalsApprove
    \/ ApprovalsSendAttempt
    \/ ApprovalsSendWait
    \/ ApprovalsSave
    \/ ApprovalsResponded

SpecApprovals == InitLedger /\ [][NextApprovals]_vars

\* C28: approvals of one user do not exclude each other, and the last write
\* wins: a call whose mail was delivered writes the user whatever the other
\* call is doing or has written, leaving isVerified = true and, as stored
\* credential, the hash of the password this call generated, so that a
\* different password e-mailed by the other call no longer matches.
C28_ConcurrentApprovalsLastWriteWins ==
    [][\A c \in Callers :
          (/\ calls[c].pc = "save"
           /\ calls[c].op = "userapprove"
           /\ userapproveSave(c, TRUE)) =>
              LET stored == users'[calls[c].userId][1]
                  mine == calls[c].newPassword[1]
              IN  /\ calls'[c].resp[1].status = 200
                  /\ stored.isVerified
                  /\ stored.password = Hash(mine)
                  /\ mine # calls[c].user[1].generatedPassword =>
                        stored.generatedPassword = mine
                  /\ \A d \in Callers \ {c} :
                        (calls[d].newPassword # <<>> /\ calls[d].newPassword[1] # mine) =>
                            ~BcryptCompare(calls[d].newPassword[1], stored.password)]_vars

\* Both calls loaded the user unverified, both mails were delivered, both
\* writes were answered 200, and the stored credential is the one of the
\* second admin's call and not the one the first admin's call e-mailed.
C28_Witness ==
    /\ \A c \in Callers :
          /\ calls[c].pc = "done"
          /\ calls[c].op = "userapprove"
          /\ calls[c].userId = "u1"
          /\ calls[c].resp[1].status = 200
          /\ calls[c].delivered # <<>>
          /\ ~calls[c].user[1].isVerified
    /\ calls["admin1"].newPassword = Some(Plain("pwA"))
    /\ calls["admin2"].newPassword = Some(Plain("pwB"))
    /\ users["u1"][1].isVerified
    /\ users["u1"][1].password = Hash(Plain("pwB"))
    /\ ~BcryptCompare(Plain("pwA"), users["u1"][1].password)

\* ------------------------------------------------ VERIFIED is not terminal

\* The passwords of a login request that bcrypt.compare accepts against a hash
Accepted(hash) == {p \in LoginPasswords : BcryptCompare(Trim(p), hash)}

\* C29: VERIFIED is not terminal.  A userapprove that saves for a user loaded
\* as verified stores the hash of the freshly generated password with
\* isVerified = true: a login with the new password then answers 200 and a
\* login with a password of the previous credential (other than the new one)
\* answers 401.  A userreject that saves for a user loaded as verified stores
\* isVerified = false and keeps the credential: a login with that credential
\* then answers 402.
C29_VerifiedNotTerminal ==
    [][\A c \in Reviewers :
        LET call == calls[c]
            id == call.userId
            email == call.user[1].email
            before == users[id][1].password
        IN
        /\ (call.pc = "save" /\ call.op = "userapprove" /\ call.user[1].isVerified
              /\ userapproveSave(c, TRUE)) =>
              /\ calls'[c].resp[1].status = 200
              /\ users'[id][1].isVerified = TRUE
              /\ users'[id][1].password = Hash(call.newPassword[1])
              /\ LoginResult(email, call.newPassword[1], TRUE)'.status = 200
              /\ \A p \in Accepted(before) :
                    Trim(p) # call.newPassword[1] =>
                        /\ LoginResult(email, p, TRUE)'.status = 401
                        /\ LoginResult(email, p, TRUE)'.message = "Invalid password"
        /\ (call.pc = "save" /\ call.op = "userreject" /\ call.user[1].isVerified
              /\ userrejectSave(c, TRUE)) =>
              /\ calls'[c].resp[1].status = 200
              /\ users'[id][1].isVerified = FALSE
              /\ users'[id][1].password = before
              /\ Accepted(before) # {}
              /\ \A p \in Accepted(before) :
                    LoginResult(email, p, TRUE)'.status = 402]_vars

\* A verified user was approved again and the stored credential changed.
C29_Witness ==
    \E c \in Reviewers :
        /\ calls[c].pc = "done"
        /\ calls[c].op = "userapprove"
        /\ calls[c].resp[1].status = 200
        /\ calls[c].user[1].isVerified
        /\ users[calls[c].userId][1].isVerified
        /\ users[calls[c].userId][1].password = Hash(calls[c].newPassword[1])
        /\ users[calls[c].userId][1].password # calls[c].user[1].password
        /\ LoginResult(calls[c].user[1].email, calls[c].newPassword[1], TRUE).status = 200

====
